---------------------------- MODULE Spec2Model ----------------------------
(***************************************************************************)
(* Inflated Put Tracker (src/app.py): the quote adapters, the scan loop    *)
(* collect_live and the metrics / filter engine, as state machines.        *)
(*                                                                         *)
(* The specifications of the module:                                       *)
(*   SpecFilter  compute_metrics and filter_rows over a quote table        *)
(*   SpecScan    collect_live driving one provider adapter per symbol      *)
(*   SpecWindow  the scan of one symbol and the filter after it, on any    *)
(*               time zone and under each moneyness mode                   *)
(*   SpecPages   PolygonProvider._iter_contracts, one page per step        *)
(*   SpecOption  optionability_mark annotating a list of symbols           *)
(*   SpecIV      get_underlying_iv estimating one figure per symbol        *)
(*   SpecCalendar  fetch_calendar_range_multi over a range of days         *)
(*   SpecSession   the calendar of one day and the session checkboxes      *)
(*   SpecEarnings  get_symbol_earnings_multi per ticker and the table      *)
(*                 the single-ticker tab presents                          *)
(*                                                                         *)
(* Numbers.  Prices are integers counting half dollars, so that the mid    *)
(* (bid + ask) / 2 of two whole-dollar quotes is exact; D(x) is x dollars. *)
(* bid_strike_pct is an exact fraction [n, d] in lowest terms with d > 0;  *)
(* binary floating point rounding is not modelled.  Dates are day numbers; *)
(* a cell of a table is a number or not-a-number (missing, None, or text   *)
(* that pandas coerces to NaN / NaT).                                      *)
(***************************************************************************)
EXTENDS Integers, Sequences, FiniteSets, TLC

VARIABLES
    \* ---- sidebar widgets: module globals read by the filter (lines 419-428)
    target_pct, min_dte, max_dte, min_bid, min_oi, min_vol, moneyness,
    use_mark_fallback,
    \* ---- metrics / filter engine
    df,         \* the caller's quote table: [cols, rows]
    df0,        \* history: the table as it was handed over
    today,      \* pd.Timestamp.today().normalize(), a day number
    pre,        \* scan tab: pre = compute_metrics(live_df), or Nothing
    results,    \* the outcome of each filter_rows(df) call so far
    \* ---- collect_live(symbols, provider_choice, cred, min_dte, max_dte)
    symbols, provider_choice, cred,
    pc,         \* "idle" before the call, "loop" inside the for, "done" after
    provider,   \* the adapter constructed: "none", "Tradier" or "Polygon"
    idx,        \* symbols the for loop has gone through
    rows,       \* rows: list[OptionQuote]
    errors,     \* errors: the symbol of each f"{sym}: {e}" entry
    ui_errors,  \* st.error messages shown
    live_df,    \* the table returned, or Nothing before the return
    utc_today,  \* datetime.now(timezone.utc).date(), a day number
    now_et,     \* the New York wall clock during the scan, minutes of the day
    qcache,     \* PolygonProvider._qcache: option symbol -> (bid, ask, last)
    \* ---- history of the scan
    calls,      \* one entry per get_put_quotes call made
    requests,   \* every upstream request issued
    \* ---- optionability annotation (lines 1339-1356, 1498-1512)
    ann,        \* one entry per optionability_mark call made
    \* ---- implied volatility of the calendar symbols (lines 1368-1378)
    iv_log,     \* one entry per get_underlying_iv call made
    \* ---- earnings calendar (lines 1300-1320)
    cal_start, cal_end, \* the date inputs, day numbers
    cal_feed,   \* history: what the four sources answered for each day
    cal_df,     \* df_cal: the merged calendar, or Nothing before the fetch
    cal_stats,  \* stats: rows per source
    cal_bmo, cal_amc,   \* the session checkboxes (lines 1306-1309)
    cal_shown,  \* df_cal after the session filter, or Nothing before it
    \* ---- single-ticker earnings (lines 1256-1286)
    earn_syms,  \* syms: the tickers typed in
    all_rows,   \* all_rows: the tables of the tickers that had dates
    miss,       \* miss: the tickers without a date
    df_sym,     \* df_sym: the table presented, or Nothing
    earn_log,   \* history: one entry per get_symbol_earnings_multi call
    \* ---- PolygonProvider._iter_contracts (lines 229-259)
    it_pages,   \* the pages upstream holds for the symbol
    it_fail,    \* the page whose request fails (0: none)
    it_url,     \* url: the page the next request asks for
    it_params,  \* params: "first", "cursor", or "none" after a next_url
    it_yield,   \* the contracts yielded so far
    it_state,   \* "idle", "run" inside the while, "stopped" or "raised"
    it_reqs     \* history: the page requests made

fvars == <<target_pct, min_dte, max_dte, min_bid, min_oi, min_vol, moneyness,
           use_mark_fallback, df, df0, today, pre, results>>

svars == <<symbols, provider_choice, cred, pc, provider, idx, rows, errors,
           ui_errors, live_df, utc_today, now_et, qcache, calls, requests>>

ovars == <<ann, iv_log>>

cvars == <<cal_start, cal_end, cal_feed, cal_df, cal_stats, cal_bmo, cal_amc,
           cal_shown>>

evars == <<earn_syms, all_rows, miss, df_sym, earn_log>>

pvars == <<it_pages, it_fail, it_url, it_params, it_yield, it_state, it_reqs>>

xvars == <<ovars, cvars, evars, pvars>>

vars == <<fvars, svars, xvars>>

-----------------------------------------------------------------------------
(* Bounds of the model *)

\* rows of a quote table
MaxRows == 2
\* filter_rows calls observed on one table
MaxCalls == 2
\* symbols of one scan
MaxSymbols == 3

-----------------------------------------------------------------------------
(* Cells and numbers *)

Num(v) == [ok |-> TRUE, v |-> v]
NaN == [ok |-> FALSE, v |-> 0]
Nothing == [none |-> TRUE]

\* x dollars, in half dollars
D(x) == 2 * x

\* a time of day, in minutes
Clock(h, m) == 60 * h + m

\* pd.to_numeric(col, errors="coerce").fillna(0.0) on one cell
to_numeric_fillna0(c) == IF c.ok THEN c.v ELSE 0

Abs(x) == IF x < 0 THEN -x ELSE x

RECURSIVE GCD(_, _)
GCD(a, b) == IF b = 0 THEN a ELSE GCD(b, a % b)

\* the fraction n / d (d > 0) in lowest terms
Frac(n, d) ==
    LET g == GCD(Abs(n), d)
    IN  [n |-> n \div g, d |-> d \div g]

FracGE(p, q) == p.n * q.d >= q.n * p.d
FracGT(p, q) == p.n * q.d > q.n * p.d

Range(s) == {s[i] : i \in 1..Len(s)}

\* sequences over S of length at most n
SeqUpTo(S, n) == UNION {[1..k -> S] : k \in 0..n}

-----------------------------------------------------------------------------
(* compute_metrics, lines 445-480 *)

\* lines 458-465: eff = bid; eff.where(eff > 0, mid) when the flag is set;
\* eff.where(eff > 0, last); Series.where keeps the value where the condition
\* holds and takes the other one elsewhere.
\* (variant: the mid taken whether or not the flag is set)
EffBidNoFlagCheck(bid, ask, last, use_mark) ==
    LET mid  == (bid + ask) \div 2
        eff1 == IF bid > 0 THEN bid ELSE mid
    IN  IF eff1 > 0 THEN eff1 ELSE last

EffBid(bid, ask, last, use_mark) ==
    LET mid  == (bid + ask) \div 2
        eff0 == bid
        eff1 == IF use_mark THEN (IF eff0 > 0 THEN eff0 ELSE mid) ELSE eff0
    IN  IF eff1 > 0 THEN eff1 ELSE last

\* line 468: denom = df["strike"].replace(0, pd.NA)
Denom(strike) == IF strike = 0 THEN NaN ELSE Num(strike)

\* line 469: (eff_bid / denom) * 100; anything divided by pd.NA is pd.NA
PctCell(eff, denom) ==
    IF denom.ok THEN [ok |-> TRUE, f |-> Frac(eff * 100, denom.v)]
    ELSE [ok |-> FALSE, f |-> Frac(0, 1)]

\* line 469: .astype(float) of the quotient column.  replace(0, pd.NA) turns
\* the strike column into an object column as soon as one strike is 0, the
\* quotient is then an object column holding pd.NA, and float(pd.NA) raises
\* TypeError: the call ends there.
AstypeFloatRaises(col) == \E i \in 1..Len(col) : ~col[i].ok

\* lines 473-477: dte = (exp.normalize() - today).days, NaN for NaT
Dte(exp, now) == IF exp.ok THEN Num(exp.v - now) ELSE NaN

\* one row of the enriched copy; index is the row's label in the frame
DeriveRow(r, i, use_mark, now) ==
    LET bid    == to_numeric_fillna0(r.bid)
        ask    == to_numeric_fillna0(r.ask)
        last   == to_numeric_fillna0(r.last)
        strike == to_numeric_fillna0(r.strike)
        eff    == EffBid(bid, ask, last, use_mark)
    IN  [index |-> i,
         option_symbol |-> r.option_symbol,
         bid |-> Num(bid), ask |-> Num(ask), last |-> Num(last),
         strike |-> Num(strike),
         expiration |-> r.expiration,
         open_interest |-> r.open_interest,
         volume |-> r.volume,
         underlying_price |-> r.underlying_price,
         eff_bid |-> eff,
         pct |-> PctCell(eff, Denom(strike)),
         dte |-> Dte(r.expiration, now)]

\* line 470: bid_strike_pct.fillna(0.0)
bid_strike_pct(row) == IF row.pct.ok THEN row.pct.f ELSE Frac(0, 1)

\* the whole call: [raised, cols, rows]
compute_metrics(d, use_mark, now) ==
    LET enriched == [i \in 1..Len(d.rows) |->
                        DeriveRow(d.rows[i], i, use_mark, now)]
        col      == [i \in 1..Len(enriched) |-> enriched[i].pct]
    IN  IF AstypeFloatRaises(col)
        THEN [raised |-> TRUE, cols |-> d.cols, rows |-> <<>>]
        ELSE [raised |-> FALSE, cols |-> d.cols, rows |-> enriched]

\* the raw columns of an enriched row, as compute_metrics would leave them in
\* the caller's frame if it assigned to it
RawColumns(row) ==
    [option_symbol |-> row.option_symbol,
     bid |-> row.bid, ask |-> row.ask, last |-> row.last, strike |-> row.strike,
     expiration |-> row.expiration, open_interest |-> row.open_interest,
     volume |-> row.volume, underlying_price |-> row.underlying_price]

\* (variant: the function working on the frame it was passed)
CallerFrameAliased(d, use_mark, now) ==
    [cols |-> d.cols,
     rows |-> [i \in 1..Len(d.rows) |->
                 RawColumns(DeriveRow(d.rows[i], i, use_mark, now))]]

\* line 446: df = df.copy() rebinds the local name, every assignment that
\* follows writes to the copy: the caller's frame after the call is the frame
\* it passed.
CallerFrameAfter(d, use_mark, now) == d


-----------------------------------------------------------------------------
(* filter_rows, lines 482-501 *)

\* line 494: the moneyness test runs only when a mode is chosen, the column
\* exists and at least one row carries an underlying price
MoneynessActive(m) ==
    /\ moneyness # "Any"
    /\ "underlying_price" \in m.cols
    /\ \E i \in 1..Len(m.rows) : m.rows[i].underlying_price.ok

\* lines 495-499: a comparison with NaN is False
MoneynessTest(row) ==
    IF moneyness = "OTM only"
    THEN row.underlying_price.ok /\ row.strike.v < row.underlying_price.v
    ELSE IF moneyness = "ITM only"
    THEN row.underlying_price.ok /\ row.strike.v >= row.underlying_price.v
    ELSE TRUE

\* lines 484-488: the three tests every table gets
BaseMask(row) ==
    /\ FracGE(bid_strike_pct(row), Frac(target_pct, 1))
    /\ (row.dte.ok /\ min_dte <= row.dte.v /\ row.dte.v <= max_dte)
    /\ row.eff_bid >= min_bid

\* lines 484-499: mask, and the mask &= ... that follow
Mask(m, row) ==
    LET m0 == BaseMask(row)
        m1 == IF "open_interest" \in m.cols
              THEN m0 /\ to_numeric_fillna0(row.open_interest) >= min_oi
              ELSE m0
        m2 == IF "volume" \in m.cols
              THEN m1 /\ to_numeric_fillna0(row.volume) >= min_vol
              ELSE m1
    IN  IF MoneynessActive(m) THEN m2 /\ MoneynessTest(row) ELSE m2

\* (variant: the rows ordered by the percentage alone)
SortsBeforePctOnly(a, b) ==
    FracGT(bid_strike_pct(a), bid_strike_pct(b))

\* line 500: the sort key order, both columns descending
SortsBefore(a, b) ==
    \/ FracGT(bid_strike_pct(a), bid_strike_pct(b))
    \/ /\ bid_strike_pct(a) = bid_strike_pct(b)
       /\ a.eff_bid > b.eff_bid

\* a row put into an ordered sequence, behind the rows it does not sort before
RECURSIVE InsertRow(_, _)
InsertRow(s, row) ==
    IF s = <<>> THEN <<row>>
    ELSE IF SortsBefore(row, Head(s)) THEN <<row>> \o s
    ELSE <<Head(s)>> \o InsertRow(Tail(s), row)

\* line 500: sort_values(["bid_strike_pct", "eff_bid"], ascending=[False, False])
RECURSIVE sort_values(_)
sort_values(s) ==
    IF s = <<>> THEN <<>>
    ELSE InsertRow(sort_values(SubSeq(s, 1, Len(s) - 1)), s[Len(s)])

\* the whole call: [raised, rows]
filter_rows(d) ==
    LET m == compute_metrics(d, use_mark_fallback, today)
        Keep(row) == Mask(m, row)
    IN  IF m.raised
        THEN [raised |-> TRUE, rows |-> <<>>]
        ELSE [raised |-> FALSE, rows |-> sort_values(SelectSeq(m.rows, Keep))]

-----------------------------------------------------------------------------
(* The tables and configurations of SpecFilter *)

Q(sym, bid, ask, last, strike, exp, oi, vol, up) ==
    [option_symbol |-> sym, bid |-> bid, ask |-> ask, last |-> last,
     strike |-> strike, expiration |-> exp, open_interest |-> oi,
     volume |-> vol, underlying_price |-> up]

\* quote rows as a CSV upload or a scan can hold them; expirations are day
\* numbers counted from the day of the run
QuoteRows ==
    { Q("ABC",    Num(D(6)), Num(D(8)), NaN,       Num(D(50)), Num(10), Num(100), Num(20), Num(D(60))),
      Q("XYZ",    Num(0),    Num(D(4)), Num(D(3)), Num(D(20)), Num(10), Num(100), Num(20), NaN),
      Q("ZERO",   Num(D(1)), Num(D(2)), NaN,       Num(0),     Num(10), Num(100), Num(20), Num(D(60))),
      Q("NOSTR",  Num(D(1)), Num(D(2)), NaN,       NaN,        Num(10), Num(100), Num(20), NaN),
      Q("PAST",   Num(D(6)), Num(D(8)), NaN,       Num(D(50)), Num(-1), Num(100), Num(20), Num(D(60))),
      Q("BADEXP", Num(D(6)), Num(D(8)), NaN,       Num(D(50)), NaN,     Num(100), Num(20), Num(D(60))),
      Q("THIN",   Num(D(6)), Num(D(8)), Num(D(7)), Num(D(50)), Num(3),  Num(10),  NaN,     Num(D(40))),
      Q("NOQ",    NaN,       Num(0),    NaN,       Num(D(20)), Num(10), Num(100), Num(20), NaN),
      Q("DEF",    Num(D(12)), Num(D(13)), NaN,     Num(D(100)), Num(10), Num(100), Num(20), Num(D(110))) }

\* the optional columns a table may come with (line 489, 491, 494)
ColSets ==
    { {"open_interest", "volume", "underlying_price"},
      {"open_interest", "volume"},
      {} }

\* a row as it stands in a table with the columns cols
InTable(r, cols) ==
    [r EXCEPT !.open_interest = IF "open_interest" \in cols THEN @ ELSE NaN,
              !.volume = IF "volume" \in cols THEN @ ELSE NaN,
              !.underlying_price = IF "underlying_price" \in cols THEN @ ELSE NaN]

Tables ==
    { [cols |-> c, rows |-> [i \in 1..Len(s) |-> InTable(s[i], c)]] :
        c \in ColSets, s \in SeqUpTo(QuoteRows, MaxRows) }

\* threshold settings the sidebar allows (lines 419-424: target >= 0,
\* min DTE >= 0, max DTE >= 1, the others >= 0)
Thresholds ==
    { [target_pct |-> 0,  min_dte |-> 0, max_dte |-> 30, min_bid |-> 0,    min_oi |-> 0,  min_vol |-> 0],
      [target_pct |-> 10, min_dte |-> 7, max_dte |-> 30, min_bid |-> D(1), min_oi |-> 0,  min_vol |-> 0],
      [target_pct |-> 10, min_dte |-> 0, max_dte |-> 30, min_bid |-> 0,    min_oi |-> 50, min_vol |-> 10],
      [target_pct |-> 15, min_dte |-> 0, max_dte |-> 30, min_bid |-> D(3), min_oi |-> 0,  min_vol |-> 0] }

\* line 425
MoneynessModes == {"Any", "OTM only", "ITM only"}

\* no scan is under way
ScanIdle ==
    /\ symbols = <<>>
    /\ provider_choice = "CSV only"
    /\ cred = ""
    /\ pc = "idle"
    /\ provider = "none"
    /\ idx = 0
    /\ rows = <<>>
    /\ errors = <<>>
    /\ ui_errors = <<>>
    /\ live_df = Nothing
    /\ utc_today = 0
    /\ now_et = Clock(12, 0)
    /\ qcache = <<>>
    /\ calls = <<>>
    /\ requests = <<>>

\* no annotation has been made
OptionIdle == ann = <<>> /\ iv_log = <<>>

\* no contract listing is being read
PagesIdle ==
    /\ it_pages = <<>>
    /\ it_fail = 0
    /\ it_url = 0
    /\ it_params = "first"
    /\ it_yield = <<>>
    /\ it_state = "idle"
    /\ it_reqs = <<>>

\* no calendar has been fetched
CalendarIdle ==
    /\ cal_start = 0
    /\ cal_end = 0
    /\ cal_feed = <<>>
    /\ cal_df = Nothing
    /\ cal_stats = Nothing
    /\ cal_bmo = TRUE
    /\ cal_amc = TRUE
    /\ cal_shown = Nothing

\* no earnings lookup has been made
EarningsIdle ==
    /\ earn_syms = <<>>
    /\ all_rows = <<>>
    /\ miss = <<>>
    /\ df_sym = Nothing
    /\ earn_log = <<>>

-----------------------------------------------------------------------------
(* SpecFilter *)

InitFilter ==
    /\ \E t \in Thresholds :
          /\ target_pct = t.target_pct
          /\ min_dte = t.min_dte
          /\ max_dte = t.max_dte
          /\ min_bid = t.min_bid
          /\ min_oi = t.min_oi
          /\ min_vol = t.min_vol
    /\ moneyness \in MoneynessModes
    /\ use_mark_fallback \in BOOLEAN
    /\ df \in Tables
    /\ df0 = df
    /\ today = 0
    /\ pre = Nothing
    /\ results = <<>>
    /\ ScanIdle
    /\ OptionIdle
    /\ CalendarIdle
    /\ EarningsIdle
    /\ PagesIdle

\* line 1090: pre = compute_metrics(live_df), the diagnostics table
ComputeMetrics ==
    /\ pre = Nothing
    /\ pre' = compute_metrics(df, use_mark_fallback, today)
    /\ df' = CallerFrameAfter(df, use_mark_fallback, today)
    /\ UNCHANGED <<target_pct, min_dte, max_dte, min_bid, min_oi, min_vol,
                   moneyness, use_mark_fallback, df0, today, results>>
    /\ UNCHANGED svars
    /\ UNCHANGED xvars

\* lines 1075, 1124: results = filter_rows(df)
FilterRows ==
    /\ Len(results) < MaxCalls
    /\ results' = Append(results, filter_rows(df))
    /\ df' = CallerFrameAfter(df, use_mark_fallback, today)
    /\ UNCHANGED <<target_pct, min_dte, max_dte, min_bid, min_oi, min_vol,
                   moneyness, use_mark_fallback, df0, today, pre>>
    /\ UNCHANGED svars
    /\ UNCHANGED xvars

NextFilter == ComputeMetrics \/ FilterRows

SpecFilter == InitFilter /\ [][NextFilter]_vars

-----------------------------------------------------------------------------
(* Upstream payloads *)

\* a JSON field read as float(c.get(k, 0) or 0): a number, missing / null /
\* empty (the "or 0" arm), or text float() cannot read (ValueError)
R(v) == [kind |-> "num", v |-> v]
Null == [kind |-> "null", v |-> 0]
Malformed == [kind |-> "bad", v |-> 0]

\* float(x or 0), for a field float() can read
float_or0(x) == IF x.kind = "num" THEN x.v ELSE 0

\* a response: ok, or the request failed (raise_for_status, a network error)
Ok(body) == [ok |-> TRUE, body |-> body]
Fail == [ok |-> FALSE, body |-> <<>>]

Req(ep, sym, arg) == [ep |-> ep, sym |-> sym, arg |-> arg]

\* sum(s, []) for a sequence of sequences
RECURSIVE Flatten(_)
Flatten(ss) == IF ss = <<>> THEN <<>> ELSE Head(ss) \o Flatten(Tail(ss))

-----------------------------------------------------------------------------
(* TradierProvider.get_put_quotes, lines 106-149 *)

\* lines 128-130: one of float(bid), float(ask), float(strike) raises
TradierQuoteFieldsRaise(c) ==
    c.bid.kind = "bad" \/ c.ask.kind = "bad" \/ c.strike.kind = "bad"

\* lines 142-145: one of the conversions inside OptionQuote(...) raises
TradierRecordFieldsRaise(c) ==
    \/ c.last.kind = "bad" \/ c.volume.kind = "bad"
    \/ c.open_interest.kind = "bad" \/ c.underlying_price.kind = "bad"

\* lines 133-148
TradierRecord(sym, d, c) ==
    [provider |-> "Tradier", option_symbol |-> c.symbol, underlying |-> sym,
     type |-> "put", strike |-> Num(float_or0(c.strike)), expiration |-> Num(d),
     bid |-> Num(float_or0(c.bid)), ask |-> Num(float_or0(c.ask)),
     last |-> Num(float_or0(c.last)), volume |-> Num(float_or0(c.volume)),
     open_interest |-> Num(float_or0(c.open_interest)),
     underlying_price |-> Num(float_or0(c.underlying_price)),
     exch |-> c.root_symbol, updated |-> NaN]

\* line 126
TradierIsPut(c) == c.option_type = "put"

\* lines 131-132
\* (variant: only a strike of exactly 0 dropped)
StrikeDroppedOnlyZero(strike) == strike = 0

StrikeDropped(strike) == strike <= 0

\* lines 125-148: the contracts of one chain, from the k-th on; acc is out.
\* A conversion that raises ends the call with the exception.
RECURSIVE TradierChain(_, _, _, _, _)
TradierChain(sym, d, chain, k, acc) ==
    IF k > Len(chain) THEN [raised |-> FALSE, out |-> acc]
    ELSE LET c == chain[k]
         IN  IF ~TradierIsPut(c) THEN TradierChain(sym, d, chain, k + 1, acc)
             ELSE IF TradierQuoteFieldsRaise(c) THEN [raised |-> TRUE, out |-> acc]
             ELSE IF StrikeDropped(float_or0(c.strike))
                  THEN TradierChain(sym, d, chain, k + 1, acc)
             ELSE IF TradierRecordFieldsRaise(c) THEN [raised |-> TRUE, out |-> acc]
             ELSE TradierChain(sym, d, chain, k + 1,
                               Append(acc, TradierRecord(sym, d, c)))

\* lines 118-120
\* (variant: no upper end of the window)
OutsideWindowNoUpper(dte, lo, hi) == dte < lo

OutsideWindow(dte, lo, hi) == dte < lo \/ dte > hi

\* lines 113-148: the expirations from the i-th on.  st is
\* [raised, out, reqs, failed]: failed records that a request has failed.
RECURSIVE TradierExpirations(_, _, _, _, _, _, _)
TradierExpirations(sym, feed, lo, hi, now, i, st) ==
    IF i > Len(feed.exps.body) THEN st
    ELSE LET exp == feed.exps.body[i]
         IN  IF ~exp.ok     \* dtp.parse(exp) raises: continue
             THEN TradierExpirations(sym, feed, lo, hi, now, i + 1, st)
             ELSE IF OutsideWindow(exp.v - now, lo, hi)
             THEN TradierExpirations(sym, feed, lo, hi, now, i + 1, st)
             ELSE LET reqs == Append(st.reqs, Req("chains", sym, exp.v))
                      resp == feed.chains[i]
                  IN  IF ~resp.ok   \* self._chain raises: continue
                      THEN TradierExpirations(sym, feed, lo, hi, now, i + 1,
                               [st EXCEPT !.reqs = reqs, !.failed = TRUE])
                      ELSE LET r == TradierChain(sym, exp.v, resp.body, 1, st.out)
                           IN  IF r.raised
                               THEN [st EXCEPT !.raised = TRUE, !.out = r.out,
                                               !.reqs = reqs]
                               ELSE TradierExpirations(sym, feed, lo, hi, now,
                                        i + 1,
                                        [st EXCEPT !.out = r.out, !.reqs = reqs])

\* the whole call against what upstream answers (feed): what the caller gets
\* is out when raised is FALSE, and the exception when it is TRUE
TradierGetPutQuotes(sym, feed, lo, hi, now) ==
    LET reqs == <<Req("expirations", sym, 0)>>
    IN  IF ~feed.exps.ok    \* lines 109-112: return out
        THEN [raised |-> FALSE, out |-> <<>>, reqs |-> reqs, failed |-> TRUE]
        ELSE TradierExpirations(sym, feed, lo, hi, now, 1,
                 [raised |-> FALSE, out |-> <<>>, reqs |-> reqs,
                  failed |-> FALSE])

\* contracts a Tradier chain can list
TC(sym, type, strike, bid) ==
    [symbol |-> sym, option_type |-> type, strike |-> strike, bid |-> bid,
     ask |-> R(D(8)), last |-> R(D(7)), volume |-> R(20),
     open_interest |-> R(100), underlying_price |-> R(D(60)),
     root_symbol |-> "ROOT"]

TradierCalls == {"T-C50"}

tP50   == TC("T-P50", "put", R(D(50)), R(D(6)))
tC50   == TC("T-C50", "call", R(D(50)), R(D(6)))
tP0    == TC("T-P0", "put", R(0), R(D(1)))
tPnull == TC("T-Pnull", "put", Null, R(D(1)))
tPneg  == TC("T-Pneg", "put", R(-D(5)), R(D(1)))
tPbad  == TC("T-Pbad", "put", R(D(50)), Malformed)
\* a put whose chain entry has no underlying_price field
tPnoup == [TC("T-Pnoup", "put", R(D(50)), R(D(6))) EXCEPT !.underlying_price = Null]

\* what Tradier can answer for one symbol: the expirations response and the
\* chain response for each expiration listed
TradierFeed(exps, chains) == [exps |-> exps, chains |-> chains]

TradierFeeds ==
    { TradierFeed(Fail, <<>>),
      TradierFeed(Ok(<<>>), <<>>),
      TradierFeed(Ok(<<Num(30)>>), <<Ok(<<tC50, tP50>>)>>),
      TradierFeed(Ok(<<NaN, Num(400), Num(10)>>),
                  <<Fail, Fail, Ok(<<tP0, tPnull, tPneg, tP50>>)>>),
      TradierFeed(Ok(<<Num(10), Num(3)>>), <<Fail, Ok(<<tP50>>)>>),
      TradierFeed(Ok(<<Num(3), Num(-1)>>), <<Ok(<<tP50>>), Ok(<<tP50>>)>>),
      TradierFeed(Ok(<<Num(10)>>), <<Ok(<<tP50, tPbad, tP50>>)>>),
      TradierFeed(Ok(<<Num(10)>>), <<Ok(<<tPnoup>>)>>) }

-----------------------------------------------------------------------------
(* PolygonProvider, lines 153-338 *)

\* what one endpoint answers for one option: kind is "ok" (status 200),
\* "http" (another status) or "exc" (the request raises)
Ans(kind, bid, ask, px) == [kind |-> kind, bid |-> bid, ask |-> ask, px |-> px]

\* lines 161-174: _trade_latest; lines 176-190: _prev_close
\* (variant: the price never known)
PriceNeverKnown(a) == 0

PriceOrZero(a) == IF a.kind = "ok" THEN a.px ELSE 0

\* lines 192-201: outside the 9:30 - 16:05 session of the New York clock t
\* (variant: the session taken to end at 16:00)
AfterHoursFromFour(t) == t >= Clock(16, 0) \/ t < Clock(9, 30)

is_after_hours_et(t) == t >= Clock(16, 5) \/ t < Clock(9, 30)

\* the times of day a scan is observed at
ClockTimes == {Clock(9, 29), Clock(9, 30), Clock(16, 4), Clock(16, 5)}

\* lines 203-227: _snapshot_quote, [tuple, cache, reqs]; the cache is a
\* sequence of [opt, tuple] entries
CacheHas(cache, opt) == \E i \in 1..Len(cache) : cache[i].opt = opt
CacheGet(cache, opt) ==
    cache[CHOOSE i \in 1..Len(cache) : cache[i].opt = opt].tuple

\* (variant: the tuple not kept)
SnapshotNeverCached(cache, opt, tup) == cache

SnapshotCached(cache, opt, tup) == Append(cache, [opt |-> opt, tuple |-> tup])

snapshot_quote(sym, opt, q, cache) ==
    IF CacheHas(cache, opt)
    THEN [tuple |-> CacheGet(cache, opt), cache |-> cache, reqs |-> <<>>,
          failed |-> FALSE]
    ELSE IF q.snap.kind = "ok"
    THEN LET tup == [bid |-> q.snap.bid, ask |-> q.snap.ask, last |-> q.snap.px]
         IN  [tuple |-> tup, cache |-> SnapshotCached(cache, opt, tup),
              reqs |-> <<Req("snapshot", sym, opt)>>, failed |-> FALSE]
    ELSE [tuple |-> [bid |-> 0, ask |-> 0, last |-> 0], cache |-> cache,
          reqs |-> <<Req("snapshot", sym, opt)>>, failed |-> TRUE]

\* lines 297-316: the quote of one contract after the NBBO answer nb:
\* [bid, ask, last_px, cache, reqs, failed]
PolygonLadder(sym, opt, q, nb, cache, ah) ==
    LET bid0 == IF nb.kind = "ok" THEN nb.bid ELSE 0
        ask0 == IF nb.kind = "ok" THEN nb.ask ELSE 0
    IN  IF ~(bid0 <= 0 /\ ask0 <= 0)
        THEN [bid |-> bid0, ask |-> ask0, last_px |-> 0, cache |-> cache,
              reqs |-> <<>>, failed |-> FALSE]
        ELSE
        LET sn == snapshot_quote(sym, opt, q, cache)
            useSnap == sn.tuple.bid > 0 \/ sn.tuple.ask > 0
            needPrev == ~useSnap /\ PriceOrZero(q.trade) <= 0
            last_px == IF useSnap THEN sn.tuple.last
                       ELSE IF PriceOrZero(q.trade) <= 0
                            THEN PriceOrZero(q.prev)
                            ELSE PriceOrZero(q.trade)
            bid1 == IF useSnap THEN sn.tuple.bid ELSE bid0
            ask1 == IF useSnap THEN sn.tuple.ask ELSE ask0
            synth == (bid1 <= 0 /\ ask1 <= 0) /\ last_px > 0 /\ ah
            reqs == sn.reqs
                    \o (IF useSnap THEN <<>> ELSE <<Req("trade", sym, opt)>>)
                    \o (IF needPrev THEN <<Req("prev", sym, opt)>> ELSE <<>>)
        IN  [bid |-> IF synth THEN last_px ELSE bid1,
             ask |-> IF synth THEN last_px ELSE ask1,
             last_px |-> last_px, cache |-> sn.cache, reqs |-> reqs,
             failed |-> \/ sn.failed
                        \/ (~useSnap /\ q.trade.kind # "ok")
                        \/ (needPrev /\ q.prev.kind # "ok")]

\* lines 318-333
PolygonRecord(sym, c, l) ==
    [provider |-> "Polygon", option_symbol |-> c.ticker, underlying |-> sym,
     type |-> "put", strike |-> Num(float_or0(c.strike_price)),
     expiration |-> Num(c.expiration_date.v),
     bid |-> Num(l.bid), ask |-> Num(l.ask),
     last |-> IF l.last_px > 0 THEN Num(l.last_px) ELSE NaN,
     volume |-> NaN, open_interest |-> NaN, underlying_price |-> NaN,
     exch |-> "", updated |-> NaN]

\* the page size asked for (line 237, "limit": 1000), scaled down
PageLimit == 2

\* lines 234-239: the first request asks for the puts of the underlying
\* ("any" would be a request without the contract_type parameter)
ContractTypeAsked == "put"

\* the reference endpoint: the listed contracts of the type asked for, cut in
\* pages of PageLimit; a next link (next_url or cursor) while there are more
PolygonMatching(feed) ==
    LET Wanted(c) == ContractTypeAsked = "any" \/ c.contract_type = ContractTypeAsked
    IN  SelectSeq(feed.listing, Wanted)

PolygonPage(feed, p) ==
    LET all == PolygonMatching(feed)
        lo  == (p - 1) * PageLimit + 1
        hi  == IF p * PageLimit < Len(all) THEN p * PageLimit ELSE Len(all)
    IN  [results |-> SubSeq(all, lo, hi),
         next |-> IF p * PageLimit < Len(all) THEN feed.link ELSE "none"]

\* lines 277-333: the contracts of one page from the k-th on.  st is
\* [stopped, out, reqs, failed, cache]; stopped records that an exception
\* reached the try of line 276, which ends the loop.
RECURSIVE PolygonContracts(_, _, _, _, _, _, _, _)
PolygonContracts(sym, page, k, lo, hi, now, ah, st) ==
    IF k > Len(page) THEN st
    ELSE LET c == page[k]
             Skip == PolygonContracts(sym, page, k + 1, lo, hi, now, ah, st)
         IN  IF c.ticker = "" THEN Skip
             ELSE IF ~c.expiration_date.ok THEN Skip
             ELSE IF OutsideWindow(c.expiration_date.v - now, lo, hi) THEN Skip
             ELSE IF c.strike_price.kind = "bad"
                  THEN [st EXCEPT !.stopped = TRUE]
             ELSE IF StrikeDropped(float_or0(c.strike_price)) THEN Skip
             ELSE LET reqs == Append(st.reqs, Req("nbbo", sym, c.ticker))
                  IN  IF c.q.nbbo.kind = "exc"
                      THEN [st EXCEPT !.stopped = TRUE, !.reqs = reqs,
                                      !.failed = TRUE]
                      ELSE LET l == PolygonLadder(sym, c.ticker, c.q, c.q.nbbo,
                                                  st.cache, ah)
                           IN  PolygonContracts(sym, page, k + 1, lo, hi, now, ah,
                                   [st EXCEPT
                                      !.out = Append(@, PolygonRecord(sym, c, l)),
                                      !.reqs = reqs \o l.reqs,
                                      !.failed = @ \/ c.q.nbbo.kind # "ok"
                                                   \/ l.failed,
                                      !.cache = l.cache])

\* lines 229-259 driven by the for of line 277: page p and those after it
RECURSIVE PolygonPagesFrom(_, _, _, _, _, _, _, _)
PolygonPagesFrom(sym, feed, p, lo, hi, now, ah, st) ==
    LET reqs == Append(st.reqs, Req("contracts", sym, p))
    IN  IF feed.failPage = p    \* raise_for_status raises
        THEN [st EXCEPT !.stopped = TRUE, !.reqs = reqs, !.failed = TRUE]
        ELSE LET page == PolygonPage(feed, p)
                 r == PolygonContracts(sym, page.results, 1, lo, hi, now, ah,
                                       [st EXCEPT !.reqs = reqs])
             IN  IF r.stopped \/ page.next = "none" THEN r
                 ELSE PolygonPagesFrom(sym, feed, p + 1, lo, hi, now, ah, r)

\* the whole call: [raised, out, reqs, failed, cache]; the except of line 334
\* takes every exception, the caller always gets out
PolygonGetPutQuotes(sym, feed, lo, hi, now, ah, cache) ==
    LET r == PolygonPagesFrom(sym, feed, 1, lo, hi, now, ah,
                 [stopped |-> FALSE, out |-> <<>>, reqs |-> <<>>,
                  failed |-> FALSE, cache |-> cache])
    IN  [raised |-> FALSE, out |-> r.out, reqs |-> r.reqs,
         failed |-> r.failed, cache |-> r.cache]

\* quotes upstream can hold for one option: the answers of the NBBO, snapshot,
\* last-trade and previous-close endpoints
Quote(nbbo, snap, trade, prev) ==
    [nbbo |-> nbbo, snap |-> snap, trade |-> trade, prev |-> prev]

NoAns == Ans("http", 0, 0, 0)

qLive  == Quote(Ans("ok", D(6), D(8), 0), NoAns, NoAns, NoAns)
qSnap  == Quote(NoAns, Ans("ok", D(2), D(3), D(2)), NoAns, NoAns)
qTrade == Quote(Ans("ok", 0, 0, 0), Ans("ok", 0, 0, 0), Ans("ok", 0, 0, D(4)), NoAns)
qPrev  == Quote(Ans("ok", 0, 0, 0), Ans("exc", 0, 0, 0), Ans("ok", 0, 0, 0),
                Ans("ok", 0, 0, D(5)))
qNone  == Quote(NoAns, NoAns, Ans("exc", 0, 0, 0), NoAns)
qDown  == Quote(Ans("exc", 0, 0, 0), NoAns, NoAns, NoAns)

\* contracts the reference endpoint can list
PC(ticker, type, exp, strike, q) ==
    [ticker |-> ticker, contract_type |-> type, expiration_date |-> exp,
     strike_price |-> strike, q |-> q]

PolygonCalls == {"O:C50"}

pP50    == PC("O:P50", "put", Num(10), R(D(50)), qLive)
pC50    == PC("O:C50", "call", Num(10), R(D(50)), qLive)
pP0     == PC("O:P0", "put", Num(10), R(0), qLive)
pPnull  == PC("O:Pnull", "put", Num(10), Null, qLive)
pPfar   == PC("O:Pfar", "put", Num(400), R(D(50)), qLive)
pPnear  == PC("O:Pnear", "put", Num(3), R(D(50)), qLive)
pPnoexp == PC("O:Pnoexp", "put", NaN, R(D(50)), qLive)
pPnoid  == PC("", "put", Num(10), R(D(50)), qLive)
pPbad   == PC("O:Pbad", "put", Num(10), Malformed, qLive)
pPsnap  == PC("O:Psnap", "put", Num(10), R(D(20)), qSnap)
pPtrade == PC("O:Ptrade", "put", Num(30), R(D(20)), qTrade)
pPprev  == PC("O:Pprev", "put", Num(10), R(D(20)), qPrev)
pPnone  == PC("O:Pnone", "put", Num(10), R(D(20)), qNone)
pPdown  == PC("O:Pdown", "put", Num(10), R(D(20)), qDown)

\* what Polygon can answer for one symbol: the contracts listed, the kind of
\* next link it hands out, and the page whose request fails (0: none)
PolygonFeed(listing, link, failPage) ==
    [listing |-> listing, link |-> link, failPage |-> failPage]

PolygonFeeds ==
    { PolygonFeed(<<>>, "next_url", 1),
      PolygonFeed(<<>>, "next_url", 0),
      PolygonFeed(<<pC50, pP50>>, "next_url", 0),
      PolygonFeed(<<pPnoid, pPnoexp, pPfar, pP0, pPnull, pPnear, pP50>>, "cursor", 0),
      PolygonFeed(<<pP50, pPbad, pPnear>>, "next_url", 0),
      PolygonFeed(<<pPsnap, pPtrade, pPprev, pPsnap>>, "cursor", 0),
      PolygonFeed(<<pPnone, pPnone, pPdown, pP50>>, "next_url", 0),
      PolygonFeed(<<pP50, pPsnap, pPnear>>, "next_url", 2) }

-----------------------------------------------------------------------------
(* collect_live, lines 1025-1065, and SpecScan *)

\* the table pd.DataFrame(rows) of a scan's records
Frame(rs) == [rows |-> rs]

\* lines 1027, 1032: if not cred
\* (variant: the check left out)
CredentialNeverMissing(c) == FALSE

CredentialMissing(c) == c = ""

\* lines 1052-1054: except Exception: errors.append(...); continue -- the
\* loop goes on with the next symbol.  i symbols are done, n is len(symbols).
\* (variant: break instead of continue)
AbortAfterFailure(i, n) == n

\* (variant: the symbol that failed is tried again)
RetryAfterFailure(i, n) == i

ContinueAfterFailure(i, n) == i + 1

\* ticker symbols, in the sorted order _parse_symbols gives (line 373)
SymbolUniverse == <<"AAA", "BBB", "CCC", "DDD">>

RECURSIVE PickSorted(_, _)
PickSorted(S, i) ==
    IF i > Len(SymbolUniverse) THEN <<>>
    ELSE (IF i \in S THEN <<SymbolUniverse[i]>> ELSE <<>>) \o PickSorted(S, i + 1)

SymbolLists ==
    { PickSorted(S, 1) : S \in { T \in SUBSET (1..Len(SymbolUniverse)) :
                                    Cardinality(T) <= MaxSymbols } }

\* line 361
ProviderChoices == {"Tradier", "Polygon", "CSV only"}

\* no filter call is under way
FilterIdle ==
    /\ target_pct = 0
    /\ min_bid = 0
    /\ min_oi = 0
    /\ min_vol = 0
    /\ moneyness = "Any"
    /\ use_mark_fallback = TRUE
    /\ df = [cols |-> {}, rows |-> <<>>]
    /\ df0 = df
    /\ today = 0
    /\ pre = Nothing
    /\ results = <<>>

InitScan ==
    /\ symbols \in SymbolLists
    /\ provider_choice \in ProviderChoices
    /\ cred \in {"", "key"}
    /\ \E t \in Thresholds : min_dte = t.min_dte /\ max_dte = t.max_dte
    /\ now_et \in ClockTimes
    /\ utc_today = 0
    /\ pc = "idle"
    /\ provider = "none"
    /\ idx = 0
    /\ rows = <<>>
    /\ errors = <<>>
    /\ ui_errors = <<>>
    /\ live_df = Nothing
    /\ qcache = <<>>
    /\ calls = <<>>
    /\ requests = <<>>
    /\ moneyness = "Any"
    /\ target_pct = 0
    /\ min_bid = 0
    /\ min_oi = 0
    /\ min_vol = 0
    /\ use_mark_fallback = TRUE
    /\ df = [cols |-> {}, rows |-> <<>>]
    /\ df0 = df
    /\ today = 0
    /\ pre = Nothing
    /\ results = <<>>
    /\ OptionIdle
    /\ CalendarIdle
    /\ EarningsIdle
    /\ PagesIdle

\* lines 1026-1044: the credential checks and the adapter's construction
CollectLiveStart ==
    /\ pc = "idle"
    /\ IF provider_choice \in {"Tradier", "Polygon"}
       THEN IF CredentialMissing(cred)
            THEN /\ ui_errors' = Append(ui_errors,
                        IF provider_choice = "Tradier"
                        THEN "Please enter a Tradier token in the sidebar."
                        ELSE "Please enter a Polygon API key in the sidebar.")
                 /\ live_df' = Frame(<<>>)
                 /\ pc' = "done"
                 /\ UNCHANGED provider
            ELSE /\ provider' = provider_choice
                 /\ pc' = "loop"
                 /\ UNCHANGED <<ui_errors, live_df>>
       ELSE /\ ui_errors' = Append(ui_errors, "Unsupported provider selected.")
            /\ live_df' = Frame(<<>>)
            /\ pc' = "done"
            /\ UNCHANGED provider
    /\ UNCHANGED <<symbols, provider_choice, cred, idx, rows, errors, utc_today,
                   now_et, qcache, calls, requests>>
    /\ UNCHANGED fvars
    /\ UNCHANGED xvars

\* what provider.get_put_quotes(sym, min_dte, max_dte) can come back with,
\* one outcome per answer of the upstream
AdapterOutcomes(sym) ==
    IF provider = "Tradier"
    THEN { [feed |-> f, cache |-> qcache,
            r |-> TradierGetPutQuotes(sym, f, min_dte, max_dte, utc_today)] :
           f \in TradierFeeds }
    ELSE { [feed |-> f,
            cache |-> PolygonGetPutQuotes(sym, f, min_dte, max_dte, utc_today,
                                          is_after_hours_et(now_et),
                                          qcache).cache,
            r |-> PolygonGetPutQuotes(sym, f, min_dte, max_dte, utc_today,
                                      is_after_hours_et(now_et), qcache)] :
           f \in PolygonFeeds }

\* lines 1045-1054: one turn of the for loop
CollectLiveStep ==
    /\ pc = "loop"
    /\ idx < Len(symbols)
    /\ LET sym == symbols[idx + 1]
       IN  \E o \in AdapterOutcomes(sym) :
              /\ IF o.r.raised
                 THEN /\ errors' = Append(errors, sym)
                      /\ idx' = ContinueAfterFailure(idx, Len(symbols))
                      /\ UNCHANGED rows
                 ELSE /\ rows' = rows \o o.r.out
                      /\ idx' = idx + 1
                      /\ UNCHANGED errors
              /\ qcache' = o.cache
              /\ calls' = Append(calls,
                     [sym |-> sym, feed |-> o.feed, failed |-> o.r.failed,
                      raised |-> o.r.raised,
                      quotes |-> IF o.r.raised THEN <<>> ELSE o.r.out])
              /\ requests' = requests \o o.r.reqs
    /\ UNCHANGED <<symbols, provider_choice, cred, pc, provider, ui_errors,
                   live_df, utc_today, now_et>>
    /\ UNCHANGED fvars
    /\ UNCHANGED xvars

\* lines 1056-1065: the errors are listed and the table is returned
CollectLiveReturn ==
    /\ pc = "loop"
    /\ idx >= Len(symbols)
    /\ live_df' = Frame(rows)
    /\ pc' = "done"
    /\ UNCHANGED <<symbols, provider_choice, cred, provider, idx, rows, errors,
                   ui_errors, utc_today, now_et, qcache, calls, requests>>
    /\ UNCHANGED fvars
    /\ UNCHANGED xvars

\* line 1064: pd.DataFrame(rows) of OptionQuote dataclasses has one column per
\* field, the optional ones included
LiveTable(f) ==
    [cols |-> {"open_interest", "volume", "underlying_price"}, rows |-> f.rows]

\* lines 1086-1124: the scan tab, once collect_live has returned a table that
\* is not empty: pre = compute_metrics(live_df) for the diagnostics, then
\* results = filter_rows(live_df)
ScanFilter ==
    /\ pc = "done"
    /\ live_df # Nothing
    /\ live_df.rows # <<>>
    /\ pre = Nothing
    /\ df' = LiveTable(live_df)
    /\ df0' = LiveTable(live_df)
    /\ pre' = compute_metrics(LiveTable(live_df), use_mark_fallback, today)
    /\ results' = IF pre'.raised THEN results
                  ELSE Append(results, filter_rows(LiveTable(live_df)))
    /\ UNCHANGED <<target_pct, min_dte, max_dte, min_bid, min_oi, min_vol,
                   moneyness, use_mark_fallback, today>>
    /\ UNCHANGED svars
    /\ UNCHANGED xvars

NextScan ==
    CollectLiveStart \/ CollectLiveStep \/ CollectLiveReturn \/ ScanFilter

SpecScan == InitScan /\ [][NextScan]_vars

\* the local date of the machine on the UTC date d: the time zone puts it
\* on the same day, the day before or the day after
LocalDates(d) == {d - 1, d, d + 1}

\* SpecWindow: the scan of one symbol and the filter after it, on a machine
\* of any time zone and under each moneyness mode; the adapters read the UTC
\* date (lines 108 and 274), compute_metrics reads the local date (line 475)
InitWindow ==
    /\ symbols \in { l \in SymbolLists : Len(l) = 1 }
    /\ provider_choice \in ProviderChoices
    /\ cred \in {"", "key"}
    /\ \E t \in Thresholds : min_dte = t.min_dte /\ max_dte = t.max_dte
    /\ now_et \in ClockTimes
    /\ utc_today = 0
    /\ today \in LocalDates(utc_today)
    /\ pc = "idle"
    /\ provider = "none"
    /\ idx = 0
    /\ rows = <<>>
    /\ errors = <<>>
    /\ ui_errors = <<>>
    /\ live_df = Nothing
    /\ qcache = <<>>
    /\ calls = <<>>
    /\ requests = <<>>
    /\ moneyness \in MoneynessModes
    /\ target_pct = 0
    /\ min_bid = 0
    /\ min_oi = 0
    /\ min_vol = 0
    /\ use_mark_fallback = TRUE
    /\ df = [cols |-> {}, rows |-> <<>>]
    /\ df0 = df
    /\ pre = Nothing
    /\ results = <<>>
    /\ OptionIdle
    /\ CalendarIdle
    /\ EarningsIdle
    /\ PagesIdle

SpecWindow == InitWindow /\ [][NextScan]_vars

-----------------------------------------------------------------------------
(* PolygonProvider._iter_contracts, lines 229-259, page by page: SpecPages *)

\* pages of one listing
MaxPages == 3

\* a page of the reference endpoint: its results and the links it carries; a
\* link is the number of the page it leads to, 0 when the field is absent
RefPage(rs, next_url, next_cursor, cursor) ==
    [results |-> rs, next_url |-> next_url, next_cursor |-> next_cursor,
     cursor |-> cursor]

\* lines 249-259: what the loop does after the page js: the page asked next
\* and the params sent, or the break
\* (variant: only next_url followed)
NextRequestUrlOnly(js) ==
    IF js.next_url # 0
    THEN [stop |-> FALSE, page |-> js.next_url, params |-> "none"]
    ELSE [stop |-> TRUE, page |-> 0, params |-> "none"]

NextRequest(js) ==
    IF js.next_url # 0
    THEN [stop |-> FALSE, page |-> js.next_url, params |-> "none"]
    ELSE IF js.next_cursor # 0
    THEN [stop |-> FALSE, page |-> js.next_cursor, params |-> "cursor"]
    ELSE IF js.cursor # 0
    THEN [stop |-> FALSE, page |-> js.cursor, params |-> "cursor"]
    ELSE [stop |-> TRUE, page |-> 0, params |-> "none"]

\* the k contracts of page i
PageRows(i, k) == [j \in 1..k |-> [page |-> i, pos |-> j]]

\* the link fields a page that is not the last carries
LinkKinds == {"next_url", "next_cursor", "cursor", "both"}

\* page i of n with k contracts; its links lead to page i + 1
ListingPage(i, n, k, kind) ==
    RefPage(PageRows(i, k),
            IF i < n /\ kind \in {"next_url", "both"} THEN i + 1 ELSE 0,
            IF i < n /\ kind \in {"next_cursor", "both"} THEN i + 1 ELSE 0,
            IF i < n /\ kind = "cursor" THEN i + 1 ELSE 0)

\* the listings upstream can hold: up to MaxPages pages, each empty, with
\* one contract or full, the last one without a link
Listings ==
    UNION { { [i \in 1..n |-> ListingPage(i, n, sz[i], kd[i])] :
                sz \in [1..n -> {0, 1, PageLimit}], kd \in [1..n -> LinkKinds] } :
            n \in 1..MaxPages }

InitPages ==
    /\ it_pages \in Listings
    /\ it_fail \in {0, Len(it_pages)}
    /\ it_url = 1
    /\ it_params = "first"
    /\ it_yield = <<>>
    /\ it_state = "run"
    /\ it_reqs = <<>>
    /\ min_dte = 0
    /\ max_dte = 30
    /\ FilterIdle
    /\ ScanIdle
    /\ OptionIdle
    /\ CalendarIdle
    /\ EarningsIdle

\* lines 241-259: one turn of the while loop: the request, raise_for_status,
\* the rows yielded, the next url or the break
IterContractsPage ==
    /\ it_state = "run"
    /\ it_reqs' = Append(it_reqs, [page |-> it_url, params |-> it_params])
    /\ IF it_fail = it_url
       THEN /\ it_state' = "raised"
            /\ UNCHANGED <<it_yield, it_url, it_params>>
       ELSE LET js == it_pages[it_url]
                nx == NextRequest(js)
            IN  /\ it_yield' = it_yield \o js.results
                /\ IF nx.stop
                   THEN /\ it_state' = "stopped"
                        /\ UNCHANGED <<it_url, it_params>>
                   ELSE /\ it_url' = nx.page
                        /\ it_params' = nx.params
                        /\ UNCHANGED it_state
    /\ UNCHANGED <<it_pages, it_fail>>
    /\ UNCHANGED fvars
    /\ UNCHANGED svars
    /\ UNCHANGED <<ovars, cvars, evars>>

NextPages == IterContractsPage

\* the for loop of the caller keeps asking the generator for the next row
SpecPages == InitPages /\ [][NextPages]_vars /\ WF_vars(NextPages)

-----------------------------------------------------------------------------
(* has_options and optionability_mark, lines 504-534 *)

\* the body of an expirations response: data["expirations"]["date"] holds a
\* list of dates ("list"), one date as a string ("str"), or data["expirations"]
\* is null ("null"); Tradier answers null for a symbol without options
ExpBody(kind, dates) == [kind |-> kind, dates |-> dates]

\* what upstream can answer to the expirations request for one symbol
ExpirationsAnswers ==
    { Fail,
      Ok(ExpBody("list", <<>>)),
      Ok(ExpBody("list", <<Num(10), Num(40)>>)),
      Ok(ExpBody("str", <<Num(10)>>)),
      Ok(ExpBody("null", <<>>)) }

\* lines 86-94, TradierProvider._expirations: raise_for_status() raises on a
\* failed request, None.get("date") raises when "expirations" is null, a lone
\* string becomes a one-element list
Tradier_expirations(sym, answer) ==
    LET reqs == <<Req("expirations", sym, 0)>>
    IN  IF ~answer.ok THEN [raised |-> TRUE, exps |-> <<>>, reqs |-> reqs]
        ELSE IF answer.body.kind = "null"
        THEN [raised |-> TRUE, exps |-> <<>>, reqs |-> reqs]
        ELSE [raised |-> FALSE, exps |-> answer.body.dates, reqs |-> reqs]

\* lines 153-338: PolygonProvider defines no _expirations; line 512 raises
\* AttributeError before any request is made
Polygon_expirations(sym, answer) ==
    [raised |-> TRUE, exps |-> <<>>, reqs |-> <<>>]

\* lines 504-516: [value, reqs, probed, raised]; every exception of the probe
\* ends in "return False"
has_options(choice, c, sym, answer) ==
    IF choice = "Tradier" /\ c # ""
    THEN LET r == Tradier_expirations(sym, answer)
         IN  [value |-> ~r.raised /\ r.exps # <<>>, reqs |-> r.reqs,
              raised |-> r.raised]
    ELSE IF choice = "Polygon" /\ c # ""
    THEN LET r == Polygon_expirations(sym, answer)
         IN  [value |-> ~r.raised /\ r.exps # <<>>, reqs |-> r.reqs,
              raised |-> r.raised]
    ELSE [value |-> FALSE, reqs |-> <<>>, raised |-> FALSE]

\* line 526
\* (variant: the credential not looked at)
CanVerifyAnyCredential(choice, c) == choice \in {"Tradier", "Polygon"}

CanVerify(choice, c) == choice \in {"Tradier", "Polygon"} /\ c # ""

\* lines 519-534: (status, display_symbol); the display symbol is the symbol
\* with the suffix "*", "?" or none
optionability_mark(choice, c, sym, answer) ==
    IF CanVerify(choice, c)
    THEN LET h == has_options(choice, c, sym, answer)
         IN  IF h.value
             THEN [status |-> "yes", suffix |-> "*", reqs |-> h.reqs,
                   probe_raised |-> h.raised]
             ELSE [status |-> "no", suffix |-> "", reqs |-> h.reqs,
                   probe_raised |-> h.raised]
    ELSE [status |-> "unknown", suffix |-> "?", reqs |-> <<>>,
          probe_raised |-> FALSE]

-----------------------------------------------------------------------------
(* SpecOption: the annotation loops of the earnings tabs *)

InitOption ==
    /\ symbols \in SymbolLists
    /\ provider_choice \in ProviderChoices
    /\ cred \in {"", "key"}
    /\ ann = <<>>
    /\ iv_log = <<>>
    /\ requests = <<>>
    /\ pc = "idle"
    /\ provider = "none"
    /\ idx = 0
    /\ rows = <<>>
    /\ errors = <<>>
    /\ ui_errors = <<>>
    /\ live_df = Nothing
    /\ utc_today = 0
    /\ now_et = Clock(12, 0)
    /\ qcache = <<>>
    /\ calls = <<>>
    /\ min_dte = 0
    /\ max_dte = 30
    /\ FilterIdle
    /\ CalendarIdle
    /\ EarningsIdle
    /\ PagesIdle

\* lines 1341-1343, 1499-1501: one turn of the loop, for the next symbol;
\* answer is what upstream says (or would say) about the symbol's expirations
OptionabilityMark ==
    /\ Len(ann) < Len(symbols)
    /\ LET sym == symbols[Len(ann) + 1]
       IN  \E answer \in ExpirationsAnswers :
              LET m == optionability_mark(provider_choice, cred, sym, answer)
              IN  /\ ann' = Append(ann,
                         [sym |-> sym, upstream |-> answer, status |-> m.status,
                          suffix |-> m.suffix, reqs |-> m.reqs,
                          probe_raised |-> m.probe_raised])
                  /\ requests' = requests \o m.reqs
    /\ UNCHANGED <<symbols, provider_choice, cred, pc, provider, idx, rows,
                   errors, ui_errors, live_df, utc_today, now_et, qcache,
                   calls, iv_log>>
    /\ UNCHANGED fvars
    /\ UNCHANGED cvars
    /\ UNCHANGED evars
    /\ UNCHANGED pvars

NextOption == OptionabilityMark

SpecOption == InitOption /\ [][NextOption]_vars

-----------------------------------------------------------------------------
(* Implied volatility helpers, lines 934-1023 *)

\* IV figures are integers counting half percents, so that the median of two
\* whole-percent figures is exact; Pct(x) is x percent
Pct(x) == 2 * x

\* an entry of an option chain fetched with greeks: underlying_price, strike
\* and greeks.smv_vol
IvContract(up, k, iv) == [underlying_price |-> up, strike |-> k, smv_vol |-> iv]

\* lines 952-956: the sort key of an expiration; a date dtp.parse cannot read
\* gets 10**9
DteKey(d, now) == IF d.ok THEN Abs((d.v - now) - 30) ELSE 10^9

\* line 957: sorted(exps, key=_dte)[0]; sorted is stable, so the first of the
\* expirations with the smallest key
NearestThirty(exps, now) ==
    exps[CHOOSE i \in 1..Len(exps) :
            \A j \in 1..Len(exps) :
               \/ DteKey(exps[i], now) < DteKey(exps[j], now)
               \/ DteKey(exps[i], now) = DteKey(exps[j], now) /\ i <= j]

\* line 976: abs(k - up) / up <= 0.02, for up > 0
NearTheMoney(k, up) == 50 * Abs(k - up) <= up

\* lines 969-980: the loop over the chain from the k-th entry on; float() of
\* an unreadable underlying_price or strike raises, an unreadable smv_vol is
\* passed over
RECURSIVE AtmRows(_, _, _)
AtmRows(opts, k, acc) ==
    IF k > Len(opts) THEN [raised |-> FALSE, rows |-> acc]
    ELSE LET o == opts[k]
             up == float_or0(o.underlying_price)
             strike == float_or0(o.strike)
             iv == o.smv_vol
         IN  IF o.underlying_price.kind = "bad" \/ o.strike.kind = "bad"
             THEN [raised |-> TRUE, rows |-> acc]
             ELSE IF \/ up = 0 \/ strike = 0 \/ up <= 0
                     \/ iv.kind = "null"
                     \/ iv.kind = "num" /\ iv.v = 0
             THEN AtmRows(opts, k + 1, acc)
             ELSE IF NearTheMoney(strike, up) /\ iv.kind = "num"
             THEN AtmRows(opts, k + 1, Append(acc, iv.v))
             ELSE AtmRows(opts, k + 1, acc)

\* the k-th smallest figure of rows
KthSmallest(rs, k) ==
    CHOOSE v \in Range(rs) :
        /\ Cardinality({i \in 1..Len(rs) : rs[i] < v}) < k
        /\ Cardinality({i \in 1..Len(rs) : rs[i] <= v}) >= k

\* line 984: pd.Series(rows).median()
Median(rs) ==
    LET n == Len(rs)
    IN  IF n % 2 = 1 THEN KthSmallest(rs, (n + 1) \div 2)
        ELSE (KthSmallest(rs, n \div 2) + KthSmallest(rs, n \div 2 + 1)) \div 2

\* lines 934-986: [value, reqs]; value is Num(iv) or Nothing for None.  Every
\* exception inside the try ends in "return None".
tradier_atm_iv(sym, feed, now) ==
    LET r1 == <<Req("expirations", sym, 0)>>
    IN  IF ~feed.exps.ok \/ feed.exps.body = <<>>
        THEN [value |-> Nothing, reqs |-> r1]
        ELSE LET exp == NearestThirty(feed.exps.body, now)
                 r2 == Append(r1, Req("chains", sym, exp.v))
             IN  IF ~feed.chain.ok \/ feed.chain.body = <<>>
                 THEN [value |-> Nothing, reqs |-> r2]
                 ELSE LET a == AtmRows(feed.chain.body, 1, <<>>)
                      IN  IF a.raised \/ a.rows = <<>>
                          THEN [value |-> Nothing, reqs |-> r2]
                          ELSE [value |-> Num(Median(a.rows)), reqs |-> r2]

\* lines 1001-1008: the first of the two sections whose impliedVolatility is
\* not None and float() can read
YahooSections(node) ==
    IF node.summaryDetail.kind = "num" THEN Num(node.summaryDetail.v)
    ELSE IF node.defaultKeyStatistics.kind = "num"
    THEN Num(node.defaultKeyStatistics.v)
    ELSE Nothing

\* lines 989-1011: [value, reqs]; a status other than 200 and every exception
\* end in "return None"; the body is quoteSummary.result
yahoo_iv(sym, feed) ==
    LET rq == <<Req("quoteSummary", sym, 0)>>
    IN  IF ~feed.yahoo.ok \/ feed.yahoo.body = <<>>
        THEN [value |-> Nothing, reqs |-> rq]
        ELSE [value |-> YahooSections(feed.yahoo.body[1]), reqs |-> rq]

\* line 1016
\* (variant: Tradier tried whatever the credential)
TradierFirstAnyCredential(choice, c) == choice = "Tradier"

TradierFirst(choice, c) == choice = "Tradier" /\ c # ""

\* lines 1014-1023: (iv, source_label), with the requests made
get_underlying_iv(choice, c, sym, feed, now) ==
    LET t == IF TradierFirst(choice, c) THEN tradier_atm_iv(sym, feed, now)
             ELSE [value |-> Nothing, reqs |-> <<>>]
    IN  IF t.value # Nothing
        THEN [iv |-> t.value, src |-> "Tradier (ATM ~30D)", reqs |-> t.reqs]
        ELSE LET y == yahoo_iv(sym, feed)
             IN  IF y.value # Nothing
                 THEN [iv |-> y.value, src |-> "Yahoo",
                       reqs |-> t.reqs \o y.reqs]
                 ELSE [iv |-> Nothing, src |-> "", reqs |-> t.reqs \o y.reqs]

\* what upstream answers about one symbol: Tradier's expirations, Tradier's
\* chain for the expiration asked, Yahoo's quoteSummary result
IvFeed(exps, chain, yahoo) == [exps |-> exps, chain |-> chain, yahoo |-> yahoo]

YahooNode(sd, dks) == [summaryDetail |-> sd, defaultKeyStatistics |-> dks]

IvFeeds ==
    { \* nothing answers
      IvFeed(Fail, Fail, Fail),
      \* no expirations; Yahoo has the figure in its first section
      IvFeed(Ok(<<>>), Fail, Ok(<<YahooNode(R(Pct(35)), R(Pct(50)))>>)),
      \* one near-the-money figure; Yahoo answers too
      IvFeed(Ok(<<Num(10), Num(28), Num(40)>>),
             Ok(<<IvContract(R(D(100)), R(D(101)), R(Pct(40))),
                  IvContract(R(D(100)), R(D(120)), R(Pct(90)))>>),
             Ok(<<YahooNode(R(Pct(35)), Null)>>)),
      \* two near-the-money figures, one unreadable figure; Yahoo is down
      IvFeed(Ok(<<NaN, Num(32)>>),
             Ok(<<IvContract(R(D(100)), R(D(100)), R(Pct(40))),
                  IvContract(R(D(100)), R(D(99)), Malformed),
                  IvContract(R(D(100)), R(D(102)), R(Pct(43)))>>),
             Fail),
      \* the chain request fails; Yahoo has the figure in its second section
      IvFeed(Ok(<<Num(30)>>), Fail, Ok(<<YahooNode(Null, R(Pct(50)))>>)),
      \* an unreadable strike after a good entry; Yahoo's result is empty
      IvFeed(Ok(<<Num(30)>>),
             Ok(<<IvContract(R(D(100)), R(D(100)), R(Pct(40))),
                  IvContract(R(D(100)), Malformed, R(Pct(41)))>>),
             Ok(<<>>)),
      \* no entry near the money, figures of 0 and null; Yahoo's first
      \* figure is unreadable
      IvFeed(Ok(<<Num(30)>>),
             Ok(<<IvContract(R(D(100)), R(D(120)), R(Pct(40))),
                  IvContract(R(D(100)), R(D(100)), R(0)),
                  IvContract(Null, R(D(100)), R(Pct(40))),
                  IvContract(R(D(100)), R(D(100)), Null)>>),
             Ok(<<YahooNode(Malformed, R(Pct(50)))>>)),
      \* an empty chain; Yahoo has no figure, or a figure of 0
      IvFeed(Ok(<<Num(30)>>), Ok(<<>>), Ok(<<YahooNode(Null, Null)>>)),
      IvFeed(Ok(<<Num(30)>>), Ok(<<>>), Ok(<<YahooNode(R(0), Null)>>)) }

-----------------------------------------------------------------------------
(* SpecIV: the loop attaching an IV estimate to each symbol of the calendar *)

\* lines 1373-1377: one turn of the loop, for the next symbol of unique_syms
GetUnderlyingIV ==
    /\ Len(iv_log) < Len(symbols)
    /\ LET sym == symbols[Len(iv_log) + 1]
       IN  \E feed \in IvFeeds :
              LET g == get_underlying_iv(provider_choice, cred, sym, feed,
                                         utc_today)
              IN  /\ iv_log' = Append(iv_log,
                         [sym |-> sym, feed |-> feed, iv |-> g.iv,
                          src |-> g.src, reqs |-> g.reqs])
                  /\ requests' = requests \o g.reqs
    /\ UNCHANGED <<symbols, provider_choice, cred, pc, provider, idx, rows,
                   errors, ui_errors, live_df, utc_today, now_et, qcache,
                   calls, ann>>
    /\ UNCHANGED fvars
    /\ UNCHANGED cvars
    /\ UNCHANGED evars
    /\ UNCHANGED pvars

NextIV == GetUnderlyingIV

SpecIV == InitOption /\ [][NextIV]_vars

-----------------------------------------------------------------------------
(* The earnings calendar sources, lines 749-886 *)

\* days of one calendar range
MaxDays == 2

\* a text cell: the text and the keywords it contains once stripped and
\* lower-cased ("x in v" at lines 839, 841); blank is the empty text
Text(txt, has) == [txt |-> txt, has |-> has]
Blank == Text("", {})

\* str.strip().upper() on the texts upstream sends
Upper(txt) ==
    CASE txt = "aaa" -> "AAA"
      [] txt = "bmo" -> "BMO"
      [] txt = "amc" -> "AMC"
      [] txt = "tas" -> "TAS"
      [] txt = "time-pre-market" -> "TIME-PRE-MARKET"
      [] txt = "nan" -> "NAN"
      [] OTHER -> txt

\* lines 835-843
map_yahoo_time_to_session(val) ==
    IF val.txt = "" THEN ""
    ELSE IF "before" \in val.has \/ "pre-market" \in val.has \/ "bmo" \in val.has
    THEN "BMO"
    ELSE IF "after" \in val.has \/ "post-market" \in val.has \/ "amc" \in val.has
    THEN "AMC"
    ELSE ""

CalRow(sym, d, sess, src) ==
    [symbol |-> sym, date |-> d, session |-> sess, source |-> src]

\* lines 763-764: the session codes Nasdaq rows keep
NasdaqKeptCodes == {"BMO", "AMC", "TAS"}

\* lines 758-765: the rows of one Nasdaq answer; items are [symbol, time]
RECURSIVE NasdaqRows(_, _)
NasdaqRows(items, d) ==
    IF items = <<>> THEN <<>>
    ELSE LET it   == Head(items)
             sym  == Upper(it.symbol)
             sess == Upper(it.time)
         IN  (IF sym = "" THEN <<>>
              ELSE <<CalRow(sym, d,
                            IF sess \in NasdaqKeptCodes THEN sess ELSE "",
                            "Nasdaq")>>)
             \o NasdaqRows(Tail(items), d)

\* lines 749-768
fetch_nasdaq_calendar_for_date(answer, d) ==
    IF ~answer.ok THEN <<>> ELSE NasdaqRows(answer.body, d)

\* a scraped page: whether a table with a symbol column was found, whether
\* it has a time column, and its rows [symbol, time]
Page(symcol, timecol, items) ==
    [symcol |-> symcol, timecol |-> timecol, items |-> items]

\* lines 794, 826: "if not sym or sym == 'NAN'"; line 880 compares the
\* upper-cased symbol with "nan", which never matches
SkippedSymbol(sym, src) ==
    sym = "" \/ (src # "Yahoo" /\ sym = "NAN")

\* lines 792-797, 824-829, 878-883
RECURSIVE ScrapedRows(_, _, _, _)
ScrapedRows(items, timecol, d, src) ==
    IF items = <<>> THEN <<>>
    ELSE LET it   == Head(items)
             sym  == Upper(it.symbol)
             sess == map_yahoo_time_to_session(IF timecol THEN it.time ELSE Blank)
         IN  (IF SkippedSymbol(sym, src) THEN <<>>
              ELSE <<CalRow(sym, d, sess, src)>>)
             \o ScrapedRows(Tail(items), timecol, d, src)

\* lines 772-800, 804-832, 846-886: a failed request, no table with a symbol
\* column, or any other exception gives an empty frame
fetch_scraped_calendar_for_date(answer, d, src) ==
    IF ~answer.ok THEN <<>>
    ELSE IF ~answer.body.symcol THEN <<>>
    ELSE ScrapedRows(answer.body.items, answer.body.timecol, d, src)

-----------------------------------------------------------------------------
(* fetch_calendar_range_multi, lines 905-930 *)

\* line 929: the de-duplication key
\* (variant: the source part of the key)
CalendarKeyWithSource(r) == <<r.symbol, r.date, r.session, r.source>>

CalendarKey(r) == <<r.symbol, r.date, r.session>>

\* drop_duplicates(subset): the first row of each key is kept
RECURSIVE DropDuplicateKeys(_, _)
DropDuplicateKeys(keys, rs) ==
    IF rs = <<>> THEN <<>>
    ELSE LET n == Len(rs)
             front == DropDuplicateKeys(SubSeq(keys, 1, n - 1), SubSeq(rs, 1, n - 1))
         IN  IF \E i \in 1..(n - 1) : keys[i] = keys[n]
             THEN front
             ELSE Append(front, rs[n])

\* the order of symbols ("" first, then by code point)
SymbolOrder == <<"", "AAA", "BBB", "CCC", "DDD", "NAN">>
SymbolRank(sym) == CHOOSE i \in 1..Len(SymbolOrder) : SymbolOrder[i] = sym

\* line 929: sort_values(["date", "symbol"])
CalendarBefore(a, b) ==
    \/ a.date < b.date
    \/ a.date = b.date /\ SymbolRank(a.symbol) < SymbolRank(b.symbol)

RECURSIVE InsertCal(_, _)
InsertCal(sq, r) ==
    IF sq = <<>> THEN <<r>>
    ELSE IF CalendarBefore(r, Head(sq)) THEN <<r>> \o sq
    ELSE <<Head(sq)>> \o InsertCal(Tail(sq), r)

RECURSIVE SortCalendar(_)
SortCalendar(sq) ==
    IF sq = <<>> THEN <<>>
    ELSE InsertCal(SortCalendar(SubSeq(sq, 1, Len(sq) - 1)), sq[Len(sq)])

\* lines 916-923: the four frames of a day appended to merged in this order,
\* and counted
DayFrames(df_nq, df_yf, df_bz, df_ew) ==
    [merged |-> df_nq \o df_yf \o df_bz \o df_ew,
     stats |-> [nasdaq |-> Len(df_nq), yahoo |-> Len(df_yf),
                benzinga |-> Len(df_bz), earningswhispers |-> Len(df_ew)]]

\* lines 912-915: the four fetches of day d; feed[d] is what the sources
\* answer for day d
CalendarDay(d, feed) ==
    DayFrames(fetch_nasdaq_calendar_for_date(feed[d].nasdaq, d),
              fetch_scraped_calendar_for_date(feed[d].yahoo, d, "Yahoo"),
              fetch_scraped_calendar_for_date(feed[d].benzinga, d, "Benzinga"),
              fetch_scraped_calendar_for_date(feed[d].ew, d, "EarningsWhispers"))

\* merged and stats of a run of days followed by those of the next run
JoinDays(a, b) ==
    [merged |-> a.merged \o b.merged,
     stats |-> [nasdaq |-> a.stats.nasdaq + b.stats.nasdaq,
                yahoo |-> a.stats.yahoo + b.stats.yahoo,
                benzinga |-> a.stats.benzinga + b.stats.benzinga,
                earningswhispers |->
                    a.stats.earningswhispers + b.stats.earningswhispers]]

\* lines 910-923: the loop over the days first..last, as [merged, stats]:
\* the frames in day order and the counts added up (the range is halved to
\* keep the evaluation shallow)
RECURSIVE CalendarDays(_, _, _)
CalendarDays(first, last, feed) ==
    IF first > last
    THEN DayFrames(<<>>, <<>>, <<>>, <<>>)
    ELSE IF first = last THEN CalendarDay(first, feed)
    ELSE JoinDays(CalendarDays(first, (first + last) \div 2, feed),
                  CalendarDays((first + last) \div 2 + 1, last, feed))

\* lines 927-929: concat, drop_duplicates, sort_values
MergeCalendar(st) ==
    [rows |-> SortCalendar(DropDuplicateKeys(
                  [i \in 1..Len(st.merged) |-> CalendarKey(st.merged[i])],
                  st.merged)),
     stats |-> st.stats]

\* the whole call: [rows, stats]
fetch_calendar_range_multi(start, end, feed) ==
    MergeCalendar(CalendarDays(start, end, feed))

\* one listing item of a source: [symbol, time]
Item(sym, time) == [symbol |-> sym, time |-> time]

\* what Nasdaq can answer for one day; time is a code
NasdaqAnswers ==
    { Fail,
      Ok(<<Item("AAA", "BMO"), Item("", "AMC"), Item("aaa", "bmo")>>),
      Ok(<<Item("BBB", "TAS"), Item("CCC", "time-pre-market")>>) }

\* what the scraped pages can answer for one day
YahooAnswers ==
    { Fail,
      Ok(Page(FALSE, FALSE, <<>>)),
      Ok(Page(TRUE, TRUE,
              <<Item("AAA", Text("Before Market Open", {"before"})),
                Item("CCC", Text("After Market Close", {"after"}))>>)) }

BenzingaAnswers ==
    { Fail,
      Ok(Page(TRUE, TRUE,
              <<Item("AAA", Text("Pre-Market", {"pre-market"})),
                Item("DDD", Text("Time Not Supplied", {})),
                Item("nan", Blank)>>)) }

EarningsWhispersAnswers ==
    { Ok(Page(TRUE, FALSE, <<Item("AAA", Text("Post-Market", {"post-market"}))>>)),
      Ok(Page(TRUE, TRUE,
              <<Item("DDD", Text("Post-Market", {"post-market"})),
                Item("DDD", Text("amc", {"amc"}))>>)) }

DayAnswers ==
    [nasdaq : NasdaqAnswers, yahoo : YahooAnswers, benzinga : BenzingaAnswers,
     ew : EarningsWhispersAnswers]

-----------------------------------------------------------------------------
(* SpecCalendar: the calendar tab's fetch and its session filter *)

\* lines 1328-1333: the row passes the checkboxes
PassesSession(r, bmo, amc) ==
    LET sess == Upper(r.session)
    IN  /\ ~((sess = "BMO" /\ ~bmo) \/ (sess = "AMC" /\ ~amc))
        /\ ~(sess \notin {"BMO", "AMC"} /\ ~(bmo \/ amc))

\* lines 1325-1333: keep, a True appended for each row that passes and
\* nothing for a row that does not
RECURSIVE KeepList(_, _, _)
KeepList(rs, bmo, amc) ==
    IF rs = <<>> THEN <<>>
    ELSE (IF PassesSession(Head(rs), bmo, amc) THEN <<TRUE>> ELSE <<>>)
         \o KeepList(Tail(rs), bmo, amc)

\* the rows a mask selects, position by position
RECURSIVE MaskedRows(_, _)
MaskedRows(rs, mask) ==
    IF rs = <<>> THEN <<>>
    ELSE (IF Head(mask) THEN <<Head(rs)>> ELSE <<>>)
         \o MaskedRows(Tail(rs), Tail(mask))

\* df[mask] with a list of booleans: pandas raises ValueError ("Item wrong
\* length") unless the list is as long as the table
BoolIndex(rs, mask) ==
    IF Len(mask) # Len(rs) THEN [raised |-> TRUE, rows |-> <<>>]
    ELSE [raised |-> FALSE, rows |-> MaskedRows(rs, mask)]

\* lines 1325-1334: df_cal[keep] if keep else df_cal.iloc[0:0]
SessionFilter(rs, bmo, amc) ==
    IF KeepList(rs, bmo, amc) # <<>>
    THEN BoolIndex(rs, KeepList(rs, bmo, amc))
    ELSE [raised |-> FALSE, rows |-> <<>>]

InitCalendar ==
    /\ cal_start \in 0..1
    /\ cal_end \in (cal_start - 1)..(cal_start + MaxDays - 1)
    /\ cal_feed = <<>>
    /\ cal_df = Nothing
    /\ cal_stats = Nothing
    /\ cal_bmo = TRUE
    /\ cal_amc = TRUE
    /\ cal_shown = Nothing
    /\ min_dte = 0
    /\ max_dte = 30
    /\ FilterIdle
    /\ ScanIdle
    /\ OptionIdle
    /\ EarningsIdle
    /\ PagesIdle

\* lines 1314-1334: the button pressed; the session filter runs on a
\* calendar that is not empty (line 1319)
FetchCalendar ==
    /\ cal_df = Nothing
    /\ ui_errors = <<>>
    /\ IF cal_end < cal_start
       THEN /\ ui_errors' = <<"End date must be on/after start date.">>
            /\ UNCHANGED <<cal_feed, cal_df, cal_stats, cal_shown>>
       ELSE \E feed \in [cal_start..cal_end -> DayAnswers] :
              LET r == fetch_calendar_range_multi(cal_start, cal_end, feed)
              IN  /\ cal_feed' = feed
                  /\ cal_df' = [rows |-> r.rows]
                  /\ cal_stats' = r.stats
                  /\ cal_shown' = IF r.rows = <<>> THEN Nothing
                                  ELSE SessionFilter(r.rows, cal_bmo, cal_amc)
                  /\ UNCHANGED ui_errors
    /\ UNCHANGED <<cal_start, cal_end, cal_bmo, cal_amc>>
    /\ UNCHANGED <<symbols, provider_choice, cred, pc, provider, idx, rows,
                   errors, live_df, utc_today, now_et, qcache, calls,
                   requests>>
    /\ UNCHANGED fvars
    /\ UNCHANGED ovars
    /\ UNCHANGED evars
    /\ UNCHANGED pvars

NextCalendar == FetchCalendar

SpecCalendar == InitCalendar /\ [][NextCalendar]_vars

\* SpecSession: the calendar of one day under each setting of the session
\* checkboxes
InitSession ==
    /\ cal_start = 0
    /\ cal_end \in {-1, 0}
    /\ cal_feed = <<>>
    /\ cal_df = Nothing
    /\ cal_stats = Nothing
    /\ cal_bmo \in BOOLEAN
    /\ cal_amc \in BOOLEAN
    /\ cal_shown = Nothing
    /\ min_dte = 0
    /\ max_dte = 30
    /\ FilterIdle
    /\ ScanIdle
    /\ OptionIdle
    /\ EarningsIdle
    /\ PagesIdle

SpecSession == InitSession /\ [][NextCalendar]_vars

-----------------------------------------------------------------------------
(* The single-symbol earnings sources, lines 578-713 *)

\* a {source, date} entry; the date is a day number, or NaN for the NaT that
\* pd.to_datetime(..., errors="coerce").date() gives for an unparseable text
ERow(src, date) == [source |-> src, date |-> date]

\* lines 648-657: every earningsDate entry is appended, parseable or not;
\* lines 659-665: currentQuarterDate is used when nothing was appended, and a
\* text pd.to_datetime cannot read is passed over
earnings_from_yahoo(answer) ==
    IF ~answer.ok THEN <<>>
    ELSE LET dates == answer.body.dates
             out   == [i \in 1..Len(dates) |-> ERow("Yahoo", dates[i])]
             qd    == answer.body.quarter
         IN  IF qd.kind = "num" /\ out = <<>>
             THEN <<ERow("Yahoo", Num(qd.v))>>
             ELSE out

\* lines 683-691: the three timestamp fields; a missing or zero one is
\* skipped, one int() cannot read is passed over
RECURSIVE YahooQuoteRows(_)
YahooQuoteRows(fields) ==
    IF fields = <<>> THEN <<>>
    ELSE (IF Head(fields).kind = "num" /\ Head(fields).v # 0
          THEN <<ERow("YahooQuote", Num(Head(fields).v))>>
          ELSE <<>>)
         \o YahooQuoteRows(Tail(fields))

\* lines 672-694
earnings_from_yahoo_quote(answer) ==
    IF ~answer.ok THEN <<>> ELSE YahooQuoteRows(answer.body)

\* lines 696-713: nothing without a key; every result row with a date field
\* is appended, parseable or not
earnings_from_polygon(api_key, answer) ==
    IF api_key = "" THEN <<>>
    ELSE IF ~answer.ok THEN <<>>
    ELSE [i \in 1..Len(answer.body) |-> ERow("Polygon", answer.body[i])]

\* lines 589-606: the NASDAQ page, then the NYSE page; the first page whose
\* first date-like text parses gives the date and ends the loop
RECURSIVE earnings_from_marketbeat(_)
earnings_from_marketbeat(pages) ==
    IF pages = <<>> THEN <<>>
    ELSE LET page == Head(pages)
         IN  IF page.ok /\ page.body # <<>> /\ page.body[1].ok
             THEN <<ERow("MarketBeat", page.body[1])>>
             ELSE earnings_from_marketbeat(Tail(pages))

\* lines 610-629
earnings_from_earningswhispers_single(answer) ==
    IF answer.ok /\ answer.body # <<>> /\ answer.body[1].ok
    THEN <<ERow("EarningsWhispers", answer.body[1])>>
    ELSE <<>>

\* lines 731-732: the window of the range fallback, today - 30 days to
\* today + 60 days, scaled down
RangeBack == 1
RangeAhead == 2

\* every calendar source down for the day
QuietDay == [nasdaq |-> Fail, yahoo |-> Fail, benzinga |-> Fail, ew |-> Fail]

\* what the calendar sources answer over the fallback window: w.answers on
\* the day w.day, nothing on the other days
WindowCalendar(w, now) ==
    [d \in (now - RangeBack)..(now + RangeAhead) |->
        IF d = w.day THEN w.answers ELSE QuietDay]

\* lines 735-737: the rows of the symbol, as {source, date} entries
RECURSIVE MatchingRows(_, _)
MatchingRows(sym, df_range) ==
    IF df_range = <<>> THEN <<>>
    ELSE (IF Head(df_range).symbol = sym
          THEN <<ERow(Head(df_range).source, Num(Head(df_range).date))>>
          ELSE <<>>)
         \o MatchingRows(sym, Tail(df_range))

\* lines 733-737: the merged calendar of the window, the rows of the symbol;
\* answer.body names the one day of the window that has listings
CalendarMatches(sym, answer, now) ==
    IF ~answer.ok THEN <<>>
    ELSE MatchingRows(sym,
             fetch_calendar_range_multi(now - RangeBack, now + RangeAhead,
                                        WindowCalendar(answer.body, now)).rows)

-----------------------------------------------------------------------------
(* get_symbol_earnings_multi, lines 715-747 *)

\* the lookups in the order of lines 723-733
Sources ==
    <<"Yahoo", "YahooQuote", "Polygon", "MarketBeat", "EarningsWhispers",
      "Calendar">>

\* the request(s) of a lookup failed
SourceFailed(src, feed) ==
    CASE src = "Yahoo" -> ~feed.yahoo.ok
      [] src = "YahooQuote" -> ~feed.yahoo_quote.ok
      [] src = "Polygon" -> ~feed.polygon.ok
      [] src = "MarketBeat" -> \A i \in 1..Len(feed.marketbeat) : ~feed.marketbeat[i].ok
      [] src = "EarningsWhispers" -> ~feed.ew.ok
      [] src = "Calendar" -> ~feed.calendar.ok

\* what a lookup returns
SourceRows(src, sym, api_key, feed, now) ==
    CASE src = "Yahoo" -> earnings_from_yahoo(feed.yahoo)
      [] src = "YahooQuote" -> earnings_from_yahoo_quote(feed.yahoo_quote)
      [] src = "Polygon" -> earnings_from_polygon(api_key, feed.polygon)
      [] src = "MarketBeat" -> earnings_from_marketbeat(feed.marketbeat)
      [] src = "EarningsWhispers" -> earnings_from_earningswhispers_single(feed.ew)
      [] src = "Calendar" -> CalendarMatches(sym, feed.calendar, now)

\* lines 605, 627, 666, 692, 711, 738: "except Exception: pass / continue" in
\* every lookup
\* (variant: the Yahoo lookup letting its exception out)
SwallowsAllButYahoo(src) == src # "Yahoo"

Swallows(src) == TRUE

\* lines 723-739: lookup after lookup; st is [raised, rows, queried]
RECURSIVE QuerySources(_, _, _, _, _, _)
QuerySources(i, sym, api_key, feed, now, st) ==
    IF i > Len(Sources) THEN st
    ELSE LET src == Sources[i]
         IN  IF src = "Polygon" /\ api_key = ""
             THEN QuerySources(i + 1, sym, api_key, feed, now, st)
             ELSE IF SourceFailed(src, feed) /\ ~Swallows(src)
             THEN [st EXCEPT !.raised = TRUE, !.queried = Append(@, src)]
             ELSE QuerySources(i + 1, sym, api_key, feed, now,
                      [st EXCEPT !.rows = @ \o SourceRows(src, sym, api_key, feed, now),
                                 !.queried = Append(@, src)])

\* line 746: the de-duplication key
\* (variant: the source left out of the key)
EarningsKeyDateOnly(r) == <<r.symbol, r.date>>

EarningsKey(r) == <<r.symbol, r.date, r.source>>

\* the order of the source labels (by code point)
SourceOrder ==
    <<"Benzinga", "EarningsWhispers", "MarketBeat", "Nasdaq", "Polygon",
      "Yahoo", "YahooQuote">>
SourceRank(src) == CHOOSE i \in 1..Len(SourceOrder) : SourceOrder[i] = src

\* line 746: sort_values(["date", "source"])
EarningsBefore(a, b) ==
    \/ a.date.v < b.date.v
    \/ a.date.v = b.date.v /\ SourceRank(a.source) < SourceRank(b.source)

RECURSIVE InsertEarnings(_, _)
InsertEarnings(sq, r) ==
    IF sq = <<>> THEN <<r>>
    ELSE IF EarningsBefore(r, Head(sq)) THEN <<r>> \o sq
    ELSE <<Head(sq)>> \o InsertEarnings(Tail(sq), r)

RECURSIVE SortEarnings(_)
SortEarnings(sq) ==
    IF sq = <<>> THEN <<>>
    ELSE InsertEarnings(SortEarnings(SubSeq(sq, 1, Len(sq) - 1)), sq[Len(sq)])

\* lines 744-745: dropna(subset=["date"]), then the symbol column
RECURSIVE DatedRows(_, _)
DatedRows(sym, rs) ==
    IF rs = <<>> THEN <<>>
    ELSE (IF Head(rs).date.ok
          THEN <<[symbol |-> sym, date |-> Head(rs).date,
                  source |-> Head(rs).source]>>
          ELSE <<>>)
         \o DatedRows(sym, Tail(rs))

\* line 746: drop_duplicates(["symbol","date","source"]), sort_values
DedupedSorted(tbl) ==
    SortEarnings(DropDuplicateKeys([i \in 1..Len(tbl) |-> EarningsKey(tbl[i])],
                                   tbl))

\* lines 740-747, on what the lookups gave
MergeEarnings(sym, st) ==
    IF st.raised
    THEN [raised |-> TRUE, rows |-> <<>>, queried |-> st.queried]
    ELSE [raised |-> FALSE, rows |-> DedupedSorted(DatedRows(sym, st.rows)),
          queried |-> st.queried]

\* the whole call: [raised, rows, queried]; rows are [symbol, date, source]
get_symbol_earnings_multi(symbol, api_key, feed, now) ==
    MergeEarnings(Upper(symbol),
        QuerySources(1, Upper(symbol), api_key, feed, now,
                     [raised |-> FALSE, rows |-> <<>>, queried |-> <<>>]))

-----------------------------------------------------------------------------
(* The table of the single-ticker tab, lines 1268-1280 *)

\* line 1275: the de-duplication key of the table presented
\* (variant: one row per source kept)
PresentedKeyWithSource(r) == <<r.symbol, r.date, r.source>>

PresentedKey(r) == <<r.symbol, r.date>>

\* line 1274: sort_values(["symbol", "date", "source"])
PresentedBefore(a, b) ==
    \/ SymbolRank(a.symbol) < SymbolRank(b.symbol)
    \/ a.symbol = b.symbol /\ EarningsBefore(a, b)

RECURSIVE InsertPresented(_, _)
InsertPresented(sq, r) ==
    IF sq = <<>> THEN <<r>>
    ELSE IF PresentedBefore(r, Head(sq)) THEN <<r>> \o sq
    ELSE <<Head(sq)>> \o InsertPresented(Tail(sq), r)

RECURSIVE SortPresented(_)
SortPresented(sq) ==
    IF sq = <<>> THEN <<>>
    ELSE InsertPresented(SortPresented(SubSeq(sq, 1, Len(sq) - 1)), sq[Len(sq)])

\* line 1275: drop_duplicates(["symbol","date"]) of the sorted rows
DedupedPresented(sorted) ==
    DropDuplicateKeys([i \in 1..Len(sorted) |-> PresentedKey(sorted[i])], sorted)

RECURSIVE RowsWithDate(_)
RowsWithDate(rs) ==
    IF rs = <<>> THEN <<>>
    ELSE (IF Head(rs).date.ok THEN <<Head(rs)>> ELSE <<>>)
         \o RowsWithDate(Tail(rs))

\* lines 1269-1278: concat, dropna, sort, drop_duplicates(["symbol","date"])
PresentedTable(tables) ==
    DedupedPresented(SortPresented(RowsWithDate(Flatten(tables))))

-----------------------------------------------------------------------------
(* What the earnings sources can answer for one ticker *)

\* the body of a quoteSummary answer: the earningsDate entries and
\* earningsChart.currentQuarterDate
QuoteSummary(dates, quarter) == [dates |-> dates, quarter |-> quarter]

\* a day on which Nasdaq lists AAA before the open and BBB with the code
\* TAS, Yahoo lists AAA after the close, and Benzinga and EarningsWhispers
\* do not answer
BusyDay ==
    [nasdaq |-> Ok(<<Item("AAA", "BMO"), Item("BBB", "TAS")>>),
     yahoo |-> Ok(Page(TRUE, TRUE,
                       <<Item("AAA", Text("After Market Close", {"after"}))>>)),
     benzinga |-> Fail, ew |-> Fail]

EFeed(y, yq, pg, mb, ew, cal) ==
    [yahoo |-> y, yahoo_quote |-> yq, polygon |-> pg, marketbeat |-> mb,
     ew |-> ew, calendar |-> cal]

\* every source answering: Yahoo with a date and a text it cannot parse,
\* YahooQuote with the same day twice, Polygon with an unparseable date and
\* a date, MarketBeat on its second page, EarningsWhispers, the calendar
FullFeed ==
    EFeed(Ok(QuoteSummary(<<Num(12), NaN>>, Null)),
          Ok(<<R(12), R(12), Null>>),
          Ok(<<NaN, Num(40)>>),
          <<Fail, Ok(<<Num(10)>>)>>,
          Ok(<<Num(12)>>),
          Ok([day |-> 2, answers |-> BusyDay]))

\* FullFeed with the lookups of F failing
FailingFeed(F) ==
    [yahoo |-> IF "Yahoo" \in F THEN Fail ELSE FullFeed.yahoo,
     yahoo_quote |-> IF "YahooQuote" \in F THEN Fail ELSE FullFeed.yahoo_quote,
     polygon |-> IF "Polygon" \in F THEN Fail ELSE FullFeed.polygon,
     marketbeat |-> IF "MarketBeat" \in F THEN <<Fail, Fail>>
                    ELSE FullFeed.marketbeat,
     ew |-> IF "EarningsWhispers" \in F THEN Fail ELSE FullFeed.ew,
     calendar |-> IF "Calendar" \in F THEN Fail ELSE FullFeed.calendar]

EarningsFeeds ==
    { FailingFeed(F) : F \in SUBSET Range(Sources) }
    \cup
    { \* every source answers, none has a date
      EFeed(Ok(QuoteSummary(<<>>, Null)), Ok(<<Null, Malformed>>), Ok(<<>>),
            <<Ok(<<>>), Ok(<<NaN>>)>>, Ok(<<>>),
            Ok([day |-> 2, answers |-> QuietDay])),
      \* nothing but dates that do not parse
      EFeed(Ok(QuoteSummary(<<NaN>>, Malformed)), Fail, Ok(<<NaN>>),
            <<Fail, Fail>>, Ok(<<NaN>>), Fail),
      \* the quarter date alone
      EFeed(Ok(QuoteSummary(<<>>, R(20))), Fail, Fail, <<Fail, Fail>>, Fail,
            Fail) }

\* what the ticker box can hold once parsed (lines 1235-1237)
TickerInputs ==
    { <<>>, <<"AAA">>, <<"BBB", "AAA">> }

\* provider and credential of the sidebar; the Polygon key reaches the
\* lookup when the provider is Polygon (line 1262)
SidebarCredentials ==
    { [provider_choice |-> "Polygon", cred |-> "key"],
      [provider_choice |-> "Tradier", cred |-> "key"] }

-----------------------------------------------------------------------------
(* SpecEarnings: the single-ticker tab *)

InitEarnings ==
    /\ earn_syms \in TickerInputs
    /\ \E c \in SidebarCredentials :
          provider_choice = c.provider_choice /\ cred = c.cred
    /\ all_rows = <<>>
    /\ miss = <<>>
    /\ df_sym = Nothing
    /\ earn_log = <<>>
    /\ symbols = <<>>
    /\ pc = "idle"
    /\ provider = "none"
    /\ idx = 0
    /\ rows = <<>>
    /\ errors = <<>>
    /\ ui_errors = <<>>
    /\ live_df = Nothing
    /\ utc_today = 0
    /\ now_et = Clock(12, 0)
    /\ qcache = <<>>
    /\ calls = <<>>
    /\ requests = <<>>
    /\ min_dte = 0
    /\ max_dte = 30
    /\ FilterIdle
    /\ OptionIdle
    /\ CalendarIdle
    /\ PagesIdle

\* lines 1261-1266: one turn of the loop over the tickers
GetSymbolEarnings ==
    /\ Len(earn_log) < Len(earn_syms)
    /\ LET s == earn_syms[Len(earn_log) + 1]
           api_key == IF provider_choice = "Polygon" THEN cred ELSE ""
       IN  \E feed \in EarningsFeeds :
              LET df_s == get_symbol_earnings_multi(s, api_key, feed, utc_today)
              IN  /\ earn_log' = Append(earn_log,
                         [sym |-> s, api_key |-> api_key, feed |-> feed,
                          raised |-> df_s.raised, rows |-> df_s.rows,
                          queried |-> df_s.queried])
                  /\ IF df_s.raised
                     THEN UNCHANGED <<all_rows, miss>>
                     ELSE IF df_s.rows = <<>>
                     THEN miss' = Append(miss, s) /\ UNCHANGED all_rows
                     ELSE all_rows' = Append(all_rows, df_s.rows) /\ UNCHANGED miss
    /\ UNCHANGED <<earn_syms, df_sym>>
    /\ UNCHANGED svars
    /\ UNCHANGED fvars
    /\ UNCHANGED ovars
    /\ UNCHANGED cvars
    /\ UNCHANGED pvars

\* lines 1268-1283: the table shown once the loop is over
PresentEarnings ==
    /\ Len(earn_log) = Len(earn_syms)
    /\ earn_syms # <<>>
    /\ \A k \in 1..Len(earn_log) : ~earn_log[k].raised
    /\ all_rows # <<>>
    /\ df_sym = Nothing
    /\ df_sym' = [rows |-> PresentedTable(all_rows)]
    /\ UNCHANGED <<earn_syms, all_rows, miss, earn_log>>
    /\ UNCHANGED svars
    /\ UNCHANGED fvars
    /\ UNCHANGED ovars
    /\ UNCHANGED cvars
    /\ UNCHANGED pvars

NextEarnings == GetSymbolEarnings \/ PresentEarnings

SpecEarnings == InitEarnings /\ [][NextEarnings]_vars

-----------------------------------------------------------------------------
(* Claims about the metrics / filter engine, checked under SpecFilter *)

\* the raw quote of an enriched row: the row of the table handed over that
\* carries its index label
RawOf(row) == df0.rows[row.index]

\* the predicates of the configuration, stated on the raw row
EffOfRaw(r) ==
    LET bid  == to_numeric_fillna0(r.bid)
        ask  == to_numeric_fillna0(r.ask)
        last == to_numeric_fillna0(r.last)
    IN  IF bid > 0 THEN bid
        ELSE IF use_mark_fallback /\ bid + ask > 0 THEN (bid + ask) \div 2
        ELSE last

MoneynessConfigured(t) ==
    /\ moneyness # "Any"
    /\ "underlying_price" \in t.cols
    /\ \E i \in 1..Len(t.rows) : t.rows[i].underlying_price.ok

SatisfiesAll(t, r) ==
    LET strike == to_numeric_fillna0(r.strike)
        eff    == EffOfRaw(r)
    IN  /\ IF strike > 0 THEN eff * 100 >= target_pct * strike ELSE 0 >= target_pct
        /\ r.expiration.ok
        /\ min_dte <= r.expiration.v - today
        /\ r.expiration.v - today <= max_dte
        /\ eff >= min_bid
        /\ "open_interest" \in t.cols => to_numeric_fillna0(r.open_interest) >= min_oi
        /\ "volume" \in t.cols => to_numeric_fillna0(r.volume) >= min_vol
        /\ (MoneynessConfigured(t) /\ moneyness = "OTM only") =>
               (r.underlying_price.ok /\ strike < r.underlying_price.v)
        /\ (MoneynessConfigured(t) /\ moneyness = "ITM only") =>
               (r.underlying_price.ok /\ strike >= r.underlying_price.v)

OutIndexes(res) == {res.rows[j].index : j \in 1..Len(res.rows)}

\* C1: for every input row set and configuration, filter_rows returns exactly
\* the input rows that satisfy all configured predicates at once: none that
\* fails one of them, none missing, each once; the call yields such an output
\* for every table.
C1_FilterExactlyConjunction ==
    \A k \in 1..Len(results) :
        /\ ~results[k].raised
        /\ OutIndexes(results[k]) =
               {i \in 1..Len(df0.rows) : SatisfiesAll(df0, df0.rows[i])}
        /\ Cardinality(OutIndexes(results[k])) = Len(results[k].rows)

\* C2: every compute_metrics call yields rows whose bid_strike_pct is
\* eff_bid / strike * 100 when strike > 0 and 0 when the strike is 0, absent
\* or unparseable, without a fault.
C2_PctForEveryStrike ==
    pre # Nothing =>
        /\ ~pre.raised
        /\ \A i \in 1..Len(pre.rows) :
              LET row    == pre.rows[i]
                  strike == to_numeric_fillna0(RawOf(row).strike)
              IN  IF strike > 0
                  THEN bid_strike_pct(row).n * strike
                           = row.eff_bid * 100 * bid_strike_pct(row).d
                  ELSE bid_strike_pct(row).n = 0

\* C3: the effective bid of every enriched row is the bid when bid > 0,
\* otherwise the mid when the mid fallback is enabled and the mid is > 0,
\* otherwise the last-trade price, otherwise 0.
C3_EffectiveBidCascade ==
    /\ pre # Nothing =>
          \A i \in 1..Len(pre.rows) :
              pre.rows[i].eff_bid = EffOfRaw(RawOf(pre.rows[i]))
    /\ \A k \in 1..Len(results) : \A j \in 1..Len(results[k].rows) :
          results[k].rows[j].eff_bid = EffOfRaw(RawOf(results[k].rows[j]))

\* C3 witness: bid = 0, ask = 4.0, mid fallback enabled: effective bid 2.0
C3_Witness ==
    /\ pre # Nothing
    /\ use_mark_fallback
    /\ \E i \in 1..Len(pre.rows) :
          /\ RawOf(pre.rows[i]).bid = Num(0)
          /\ RawOf(pre.rows[i]).ask = Num(D(4))
          /\ pre.rows[i].eff_bid = D(2)

C11_SortedByPctThenEffBid ==
    \A k \in 1..Len(results) : \A j \in 1..(Len(results[k].rows) - 1) :
        LET r1 == results[k].rows[j]
            r2 == results[k].rows[j + 1]
        IN  \/ FracGT(bid_strike_pct(r1), bid_strike_pct(r2))
            \/ /\ bid_strike_pct(r1) = bid_strike_pct(r2)
               /\ r1.eff_bid >= r2.eff_bid

\* C11 witness: two rows of equal percentage came out with the larger
\* effective bid first although the table listed it second
C11_Witness ==
    \E k \in 1..Len(results) :
        /\ Len(results[k].rows) = 2
        /\ bid_strike_pct(results[k].rows[1]) = bid_strike_pct(results[k].rows[2])
        /\ results[k].rows[1].eff_bid > results[k].rows[2].eff_bid
        /\ results[k].rows[1].index > results[k].rows[2].index

-----------------------------------------------------------------------------
(* Claims about the adapters and collect_live, checked under SpecScan (C12: SpecWindow) *)

\* what upstream lists for the symbol of a call: [id, type, strike, exp]
ListedOf(call) ==
    IF provider = "Tradier"
    THEN UNION { { [id |-> call.feed.chains[i].body[j].symbol,
                    type |-> call.feed.chains[i].body[j].option_type,
                    strike |-> call.feed.chains[i].body[j].strike,
                    exp |-> call.feed.exps.body[i]] :
                   j \in 1..Len(call.feed.chains[i].body) } :
                 i \in 1..Len(call.feed.chains) }
    ELSE { [id |-> call.feed.listing[j].ticker,
            type |-> call.feed.listing[j].contract_type,
            strike |-> call.feed.listing[j].strike_price,
            exp |-> call.feed.listing[j].expiration_date] :
           j \in 1..Len(call.feed.listing) }

\* C4: every record an adapter returns is a put whose expiration lies in
\* [min_dte, max_dte] days from today; other contract types and expirations
\* outside the window never appear.
C4_PutsInsideWindow ==
    \A k \in 1..Len(calls) : \A j \in 1..Len(calls[k].quotes) :
        LET q == calls[k].quotes[j]
        IN  /\ q.type = "put"
            /\ \A c \in ListedOf(calls[k]) :
                  c.id = q.option_symbol => c.type = "put"
            /\ min_dte <= q.expiration.v - utc_today
            /\ q.expiration.v - utc_today <= max_dte

\* C4 witness: records came back from a listing that also held a call, and
\* from one that also held an expiration past the window
C4_Witness ==
    /\ \E k \in 1..Len(calls) :
          /\ calls[k].quotes # <<>>
          /\ \E c \in ListedOf(calls[k]) : c.type = "call"
    /\ \E k \in 1..Len(calls) :
          /\ calls[k].quotes # <<>>
          /\ \E c \in ListedOf(calls[k]) :
                c.exp.ok /\ c.exp.v - utc_today > max_dte

\* C5: every record an adapter emits, and so every row of the scan, has
\* strike > 0.
C5_StrikePositive ==
    /\ \A k \in 1..Len(calls) : \A j \in 1..Len(calls[k].quotes) :
          calls[k].quotes[j].strike.ok /\ calls[k].quotes[j].strike.v > 0
    /\ \A j \in 1..Len(rows) : rows[j].strike.ok /\ rows[j].strike.v > 0

\* C5 witness: records came back from a listing that also held a contract
\* with strike 0 and one with no strike
C5_Witness ==
    \E k \in 1..Len(calls) :
        /\ calls[k].quotes # <<>>
        /\ \E c \in ListedOf(calls[k]) : c.strike = R(0)
        /\ \E c \in ListedOf(calls[k]) : c.strike = Null

\* C6: get_put_quotes never lets an exception reach its caller, whatever
\* upstream answers (failed requests, malformed dates or numbers); it returns
\* what it had accumulated.  For TradierProvider and PolygonProvider alike.
C6_AdapterNeverRaises ==
    \A k \in 1..Len(calls) : ~calls[k].raised

\* the records of the calls that returned
ReturnedQuotes ==
    Flatten([k \in 1..Len(calls) |-> calls[k].quotes])

\* C7: collect_live calls the adapter once per symbol, in list order; a
\* failure for one symbol does not end the batch: the later symbols are still
\* processed and the records of the earlier ones are all in the table.
C7_OncePerSymbolInOrder ==
    /\ Len(calls) <= Len(symbols)
    /\ \A k \in 1..Len(calls) : calls[k].sym = symbols[k]
    /\ (pc = "done" /\ provider # "none") => Len(calls) = Len(symbols)
    /\ rows = ReturnedQuotes
    /\ (pc = "done" /\ provider # "none") => live_df = Frame(ReturnedQuotes)

\* C7 witness: a scan that is over, in which a symbol failed after one that
\* gave records and before one that gave records
C7_Witness ==
    /\ pc = "done"
    /\ \E a, b, c \in 1..Len(calls) :
          /\ a < b /\ b < c
          /\ calls[a].quotes # <<>>
          /\ calls[b].raised
          /\ calls[c].quotes # <<>>

\* C8: a symbol whose fetch failed is in the per-symbol failure list, apart
\* from the symbols that succeeded.
C8_FailedSymbolsReported ==
    \A k \in 1..Len(calls) :
        calls[k].failed => calls[k].sym \in Range(errors)

\* C9: without a credential for the provider chosen, or with a provider other
\* than Tradier / Polygon, collect_live returns an empty table with one error
\* shown; no adapter is constructed and no request is issued.
C9_NoCredentialBlocks ==
    (pc # "idle" /\ (cred = "" \/ provider_choice \notin {"Tradier", "Polygon"}))
        => /\ pc = "done"
           /\ live_df = Frame(<<>>)
           /\ Len(ui_errors) = 1
           /\ provider = "none"
           /\ calls = <<>>
           /\ requests = <<>>
           /\ rows = <<>>

\* C9 witness: the call has returned for a symbol list with no token
C9_Witness ==
    /\ pc = "done"
    /\ cred = ""
    /\ provider_choice = "Tradier"
    /\ Len(symbols) >= 2

\* the configured tests other than moneyness, on a raw row of the table t
PassesOtherTests(t, r) ==
    LET strike == to_numeric_fillna0(r.strike)
        eff    == EffOfRaw(r)
    IN  /\ IF strike > 0 THEN eff * 100 >= target_pct * strike ELSE 0 >= target_pct
        /\ r.expiration.ok
        /\ min_dte <= r.expiration.v - today
        /\ r.expiration.v - today <= max_dte
        /\ eff >= min_bid
        /\ "open_interest" \in t.cols => to_numeric_fillna0(r.open_interest) >= min_oi
        /\ "volume" \in t.cols => to_numeric_fillna0(r.volume) >= min_vol

\* the underlying_price fields upstream sent for the contracts of a call
\* (the Polygon listing has no such field)
UpstreamUnderlying(call) ==
    IF provider = "Tradier"
    THEN UNION { { call.feed.chains[i].body[j].underlying_price :
                   j \in 1..Len(call.feed.chains[i].body) } :
                 i \in 1..Len(call.feed.chains) }
    ELSE {}

\* no contract of the scan came with an underlying price
NoUnderlyingUpstream ==
    \A k \in 1..Len(calls) : UpstreamUnderlying(calls[k]) \subseteq {Null}

\* C12: with the mode OTM only or ITM only and no row carrying an underlying
\* price, the moneyness test is a no-op: filter_rows returns the rows it
\* returns under Any, also for adapter rows whose upstream payload had no
\* underlying price.
C12_MoneynessNoOpWithoutUnderlying ==
    (moneyness # "Any" /\ NoUnderlyingUpstream) =>
        \A k \in 1..Len(results) :
            /\ ~results[k].raised
            /\ OutIndexes(results[k]) =
                   {i \in 1..Len(df0.rows) : PassesOtherTests(df0, df0.rows[i])}

-----------------------------------------------------------------------------
(* Claims about the optionability check, checked under SpecOption *)

\* C13: the result of optionability_mark is always one of yes, no, unknown,
\* and it is unknown whenever no credential is supplied, for every provider
\* choice and whatever upstream would answer; no probe is made in that case.
C13_TriStateUnknownWithoutCredential ==
    \A k \in 1..Len(ann) :
        /\ ann[k].status \in {"yes", "no", "unknown"}
        /\ cred = "" => (ann[k].status = "unknown" /\ ann[k].reqs = <<>>)
        /\ cred = "" => requests = <<>>

\* C13 witness: Tradier chosen, no token, for a symbol upstream lists
\* expirations for and one it cannot be reached for: both unknown
C13_Witness ==
    /\ cred = ""
    /\ provider_choice = "Tradier"
    /\ \E k \in 1..Len(ann) :
          /\ ann[k].upstream.ok
          /\ ann[k].upstream.body.dates # <<>>
          /\ ann[k].status = "unknown"
    /\ \E k \in 1..Len(ann) : ~ann[k].upstream.ok /\ ann[k].status = "unknown"

\* the probe of an annotation failed: the request failed, or the code of the
\* probe raised
ProbeFailed(a) == ~a.upstream.ok \/ a.probe_raised

\* C14: with a credential configured, when the probe itself fails (network
\* error, HTTP error, malformed response, an exception inside the probe)
\* optionability_mark returns unknown, never no.
C14_FailedProbeIsUnknown ==
    \A k \in 1..Len(ann) :
        (cred # "" /\ provider_choice \in {"Tradier", "Polygon"}
                  /\ ProbeFailed(ann[k]))
            => ann[k].status = "unknown"

\* C15: for Tradier and for Polygon, with a credential and an upstream that
\* answers, optionability_mark returns yes exactly when the provider lists at
\* least one expiration for the symbol and no exactly when it lists none.
C15_YesIffExpirationsListed ==
    \A k \in 1..Len(ann) :
        (cred # "" /\ provider_choice \in {"Tradier", "Polygon"}
                  /\ ann[k].upstream.ok)
            => /\ ann[k].status = "yes" <=> ann[k].upstream.body.dates # <<>>
               /\ ann[k].status = "no" <=> ann[k].upstream.body.dates = <<>>

-----------------------------------------------------------------------------
(* Claims about the earnings calendar, checked under SpecCalendar *)

Triple(r) == <<r.symbol, r.date, r.session>>

\* the rows each source reported, per day of the range, before any merge
SourceFrames ==
    UNION { { [src |-> "Nasdaq",
               rows |-> fetch_nasdaq_calendar_for_date(cal_feed[d].nasdaq, d)],
              [src |-> "Yahoo",
               rows |-> fetch_scraped_calendar_for_date(cal_feed[d].yahoo, d, "Yahoo")],
              [src |-> "Benzinga",
               rows |-> fetch_scraped_calendar_for_date(cal_feed[d].benzinga, d,
                                                        "Benzinga")],
              [src |-> "EarningsWhispers",
               rows |-> fetch_scraped_calendar_for_date(cal_feed[d].ew, d,
                                                        "EarningsWhispers")] } :
            d \in DOMAIN cal_feed }

ReportedTriples ==
    UNION { {Triple(f.rows[i]) : i \in 1..Len(f.rows)} : f \in SourceFrames }

\* C16: the output of fetch_calendar_range_multi holds exactly one row per
\* distinct (symbol, date, session) triple reported by any source on any day
\* of the range: one row, not one per source, and no reported triple lost.
C16_OneRowPerTriple ==
    cal_df # Nothing =>
        /\ {Triple(cal_df.rows[i]) : i \in 1..Len(cal_df.rows)} = ReportedTriples
        /\ \A i, j \in 1..Len(cal_df.rows) :
              i # j => Triple(cal_df.rows[i]) # Triple(cal_df.rows[j])

\* C16 witness: two sources reported the same triple on a day of a two-day
\* range, and a third source reported the symbol with another session
C16_Witness ==
    /\ cal_df # Nothing
    /\ cal_end > cal_start
    /\ \E f, g \in SourceFrames :
          /\ f.src # g.src
          /\ \E i \in 1..Len(f.rows), j \in 1..Len(g.rows) :
                Triple(f.rows[i]) = Triple(g.rows[j])
    /\ \E i, j \in 1..Len(cal_df.rows) :
          /\ cal_df.rows[i].symbol = cal_df.rows[j].symbol
          /\ cal_df.rows[i].date = cal_df.rows[j].date
          /\ cal_df.rows[i].session # cal_df.rows[j].session

\* the time texts the scraped pages of the range carried
ScrapedTimes ==
    UNION { UNION { {a.body.items[i].time : i \in 1..Len(a.body.items)} :
                    a \in {b \in {cal_feed[d].yahoo, cal_feed[d].benzinga,
                                  cal_feed[d].ew} : b.ok} } :
            d \in DOMAIN cal_feed }

\* C17: every row of the calendar output carries a session in {BMO, AMC,
\* unknown (empty)}, for every source; a text containing "before" or
\* "pre-market" maps to BMO, one containing "after" or "post-market" to AMC,
\* anything else to unknown; no other session value appears.
C17_SessionMarkerNormalized ==
    cal_df # Nothing =>
        /\ \A i \in 1..Len(cal_df.rows) :
              cal_df.rows[i].session \in {"BMO", "AMC", ""}
        /\ \A t \in ScrapedTimes :
              map_yahoo_time_to_session(t) =
                  IF "before" \in t.has \/ "pre-market" \in t.has THEN "BMO"
                  ELSE IF "after" \in t.has \/ "post-market" \in t.has THEN "AMC"
                  ELSE ""

-----------------------------------------------------------------------------
(* Claims about the single-ticker earnings lookup, checked under SpecEarnings *)

\* the lookups a call makes: Polygon only with a key
ExpectedQueries(e) ==
    LET Asked(src) == src # "Polygon" \/ e.api_key # ""
    IN  SelectSeq(Sources, Asked)

\* the (date, source) pairs with a parseable date that the lookups of a call
\* returned
ReturnedPairs(e) ==
    UNION { LET rs == SourceRows(src, e.sym, e.api_key, e.feed, utc_today)
            IN  {<<rs[i].date.v, rs[i].source>> : i \in {j \in 1..Len(rs) : rs[j].date.ok}} :
            src \in Range(ExpectedQueries(e)) }

\* C18: the result of get_symbol_earnings_multi holds no row with a missing
\* or unparseable date, each (symbol, date, source) triple at most once,
\* every parseable (date, source) pair a source returned, and is sorted by
\* (date, source) ascending.
C18_MergedDedupedSorted ==
    \A k \in 1..Len(earn_log) :
        LET e == earn_log[k]
        IN  /\ ~e.raised
            /\ \A i \in 1..Len(e.rows) : e.rows[i].date.ok /\ e.rows[i].symbol = e.sym
            /\ \A i, j \in 1..Len(e.rows) :
                  (i # j) => <<e.rows[i].date, e.rows[i].source>>
                                 # <<e.rows[j].date, e.rows[j].source>>
            /\ {<<e.rows[i].date.v, e.rows[i].source>> : i \in 1..Len(e.rows)}
                   = ReturnedPairs(e)
            /\ \A i \in 1..(Len(e.rows) - 1) :
                  \/ e.rows[i].date.v < e.rows[i + 1].date.v
                  \/ /\ e.rows[i].date.v = e.rows[i + 1].date.v
                     /\ SourceRank(e.rows[i].source) <= SourceRank(e.rows[i + 1].source)

\* C18 witness: Yahoo returned a date that does not parse, YahooQuote the
\* same day twice, and MarketBeat, asked after them, an earlier date that
\* stands first in the result
C18_Witness ==
    \E k \in 1..Len(earn_log) :
        LET e == earn_log[k]
        IN  /\ \E i \in 1..Len(earnings_from_yahoo(e.feed.yahoo)) :
                  ~earnings_from_yahoo(e.feed.yahoo)[i].date.ok
            /\ Len(earnings_from_yahoo_quote(e.feed.yahoo_quote)) = 2
            /\ Cardinality(Range(earnings_from_yahoo_quote(e.feed.yahoo_quote))) = 1
            /\ Len(e.rows) >= 3
            /\ e.rows[1].source = "MarketBeat"
            /\ e.rows[2].source # "MarketBeat"

\* the lookups of a call whose requests failed
FailedSources(e) == {src \in Range(ExpectedQueries(e)) : SourceFailed(src, e.feed)}

MergedRows == Range(Flatten(all_rows))

\* C20: when two sources report the same date for a symbol, the merged
\* single-ticker result holds one row per source, and the table presented
\* holds exactly one row per (symbol, date): the row of the source that comes
\* first in the (symbol, date, source) order.
C20_PresentedOnePerSymbolDate ==
    /\ \A k \in 1..Len(earn_log) :
          LET e == earn_log[k]
          IN  \A p \in ReturnedPairs(e) :
                 Cardinality({i \in 1..Len(e.rows) :
                     e.rows[i].date.v = p[1] /\ e.rows[i].source = p[2]}) = 1
    /\ df_sym # Nothing =>
          /\ \A r \in MergedRows :
                \E i \in 1..Len(df_sym.rows) :
                    /\ df_sym.rows[i].symbol = r.symbol
                    /\ df_sym.rows[i].date = r.date
                    /\ SourceRank(df_sym.rows[i].source) <= SourceRank(r.source)
          /\ \A i \in 1..Len(df_sym.rows) : df_sym.rows[i] \in MergedRows
          /\ \A i, j \in 1..Len(df_sym.rows) :
                (i # j) => <<df_sym.rows[i].symbol, df_sym.rows[i].date>>
                               # <<df_sym.rows[j].symbol, df_sym.rows[j].date>>

\* C20 witness: Yahoo and YahooQuote reported the same day for a ticker, the
\* merged result holds both rows, and the table presented holds the Yahoo
\* row alone for that day
C20_Witness ==
    /\ df_sym # Nothing
    /\ \E k \in 1..Len(earn_log) :
          \E i, j \in 1..Len(earn_log[k].rows) :
              /\ earn_log[k].rows[i].date = earn_log[k].rows[j].date
              /\ earn_log[k].rows[i].source = "Yahoo"
              /\ earn_log[k].rows[j].source = "YahooQuote"
              /\ Cardinality({n \in 1..Len(df_sym.rows) :
                     /\ df_sym.rows[n].symbol = earn_log[k].sym
                     /\ df_sym.rows[n].date = earn_log[k].rows[i].date}) = 1
              /\ \E n \in 1..Len(df_sym.rows) :
                     /\ df_sym.rows[n].symbol = earn_log[k].sym
                     /\ df_sym.rows[n].date = earn_log[k].rows[i].date
                     /\ df_sym.rows[n].source = "Yahoo"

-----------------------------------------------------------------------------
(* C21 *)

\* what Tradier's near-the-money strategy yields for the call e when it is
\* tried: provider Tradier with a credential
PrimaryFigure(e) ==
    IF provider_choice = "Tradier" /\ cred # ""
    THEN tradier_atm_iv(e.sym, e.feed, utc_today).value
    ELSE Nothing

\* C21: get_underlying_iv returns a figure with a non-empty label or no
\* estimate with the empty label; the figure is Tradier's, labelled as
\* Tradier, when the provider is Tradier with a credential and the
\* near-the-money strategy yields a number; otherwise it is Yahoo's, labelled
\* Yahoo, when Yahoo has one; otherwise there is no estimate
C21_IvFromTradierThenYahoo ==
    \A i \in 1..Len(iv_log) :
        LET e == iv_log[i]
            y == yahoo_iv(e.sym, e.feed).value
        IN  /\ (e.iv = Nothing) <=> (e.src = "")
            /\ IF PrimaryFigure(e) # Nothing
               THEN e.iv = PrimaryFigure(e) /\ e.src = "Tradier (ATM ~30D)"
               ELSE IF y # Nothing
               THEN e.iv = y /\ e.src = "Yahoo"
               ELSE e.iv = Nothing /\ e.src = ""

\* with Tradier and a credential: a call answered with the median of two
\* Tradier figures, a call answered by Yahoo after Tradier yielded nothing,
\* and a call without an estimate
C21_Witness ==
    /\ provider_choice = "Tradier" /\ cred # ""
    /\ \E i \in 1..Len(iv_log) :
          /\ iv_log[i].src = "Tradier (ATM ~30D)"
          /\ iv_log[i].iv = Num(Pct(41) + 1)
    /\ \E i \in 1..Len(iv_log) :
          /\ iv_log[i].src = "Yahoo"
          /\ iv_log[i].feed.exps.ok
    /\ \E i \in 1..Len(iv_log) : iv_log[i].iv = Nothing

-----------------------------------------------------------------------------
(* C22 *)

\* the contracts Polygon can list, and what upstream holds for one option
\* identifier
ListedContracts == UNION {Range(f.listing) : f \in PolygonFeeds}

UpstreamQuote(opt) == (CHOOSE c \in ListedContracts : c.ticker = opt).q

\* the NBBO answer carries neither a bid nor an ask
NbboGaveNothing(q) == q.nbbo.kind # "ok" \/ (q.nbbo.bid = 0 /\ q.nbbo.ask = 0)

\* the snapshot answer carries neither a bid nor an ask
SnapshotGaveNothing(q) ==
    q.snap.kind # "ok" \/ (q.snap.bid <= 0 /\ q.snap.ask <= 0)

\* the last-trade endpoint has no price
TradeGaveNothing(q) == q.trade.kind # "ok" \/ q.trade.px <= 0

LadderEndpoints == {"snapshot", "trade", "prev"}

\* C22: a fallback endpoint is queried only for an option whose NBBO quote
\* has bid and ask both zero, right after the endpoint before it in the
\* order NBBO, snapshot, trade, previous close (the snapshot may be answered
\* from the cache); the trade endpoint only if the snapshot gave neither a
\* bid nor an ask, the previous-close endpoint only if the trade price is
\* also unavailable
C22_LadderOrder ==
    \A i \in 1..Len(requests) :
        requests[i].ep \in LadderEndpoints =>
            LET r == requests[i]
                q == UpstreamQuote(r.arg)
            IN  /\ NbboGaveNothing(q)
                /\ i > 1
                /\ requests[i - 1].arg = r.arg
                /\ requests[i - 1].sym = r.sym
                /\ r.ep = "snapshot" => requests[i - 1].ep = "nbbo"
                /\ r.ep = "trade" =>
                      /\ requests[i - 1].ep \in {"snapshot", "nbbo"}
                      /\ SnapshotGaveNothing(q)
                /\ r.ep = "prev" =>
                      /\ requests[i - 1].ep = "trade"
                      /\ SnapshotGaveNothing(q)
                      /\ TradeGaveNothing(q)

\* one scan in which the ladder stopped at the snapshot for one option, at
\* the trade for another, went down to the previous close for a third, and
\* was not entered for an option with a live NBBO quote
C22_Witness ==
    /\ \E i \in 1..(Len(requests) - 1) :
          requests[i].ep = "snapshot" /\ requests[i + 1].ep \notin LadderEndpoints
    /\ \E i \in 1..(Len(requests) - 1) :
          requests[i].ep = "trade" /\ requests[i + 1].ep \notin LadderEndpoints
    /\ \E i \in 1..Len(requests) : requests[i].ep = "prev"
    /\ \E i \in 1..(Len(requests) - 1) :
          /\ requests[i].ep = "nbbo"
          /\ ~NbboGaveNothing(UpstreamQuote(requests[i].arg))
          /\ requests[i + 1].ep \notin LadderEndpoints

-----------------------------------------------------------------------------
(* C23 *)

\* the records the Polygon adapter has returned during the scan
PolygonReturned ==
    IF provider # "Polygon" THEN {}
    ELSE UNION {Range(calls[k].quotes) : k \in 1..Len(calls)}

\* the price the last-trade endpoint has, or else the previous close has
\* (0: neither)
TradeOrClose(q) ==
    IF ~TradeGaveNothing(q) THEN q.trade.px
    ELSE IF q.prev.kind = "ok" THEN q.prev.px ELSE 0

\* the clock is outside the 09:30 - 16:05 session
OutsideSession == now_et < Clock(9, 30) \/ now_et >= Clock(16, 5)

\* C23: a Polygon record has bid = ask = last price exactly when neither NBBO
\* nor the snapshot gave a bid or an ask, a positive trade or close price was
\* found and the clock is outside the session; inside the session such a
\* record keeps bid = ask = 0; a record with a real bid or ask carries it
C23_PlaceholderMarkAfterHours ==
    \A rec \in PolygonReturned :
        LET q == UpstreamQuote(rec.option_symbol)
            px == TradeOrClose(q)
        IN  IF ~NbboGaveNothing(q)
            THEN rec.bid = Num(q.nbbo.bid) /\ rec.ask = Num(q.nbbo.ask)
            ELSE IF ~SnapshotGaveNothing(q)
            THEN rec.bid = Num(q.snap.bid) /\ rec.ask = Num(q.snap.ask)
            ELSE IF px > 0 /\ OutsideSession
            THEN rec.bid = Num(px) /\ rec.ask = Num(px) /\ rec.last = Num(px)
            ELSE rec.bid = Num(0) /\ rec.ask = Num(0)

\* a scan at 16:05 that returned a record carrying the previous close as
\* its bid and ask, and a record with its NBBO quote
C23_Witness ==
    /\ now_et = Clock(16, 5)
    /\ \E rec \in PolygonReturned :
          /\ NbboGaveNothing(UpstreamQuote(rec.option_symbol))
          /\ SnapshotGaveNothing(UpstreamQuote(rec.option_symbol))
          /\ rec.last = Num(D(5))
          /\ rec.bid = Num(D(5)) /\ rec.ask = Num(D(5))
    /\ \E rec \in PolygonReturned :
          rec.bid = Num(D(6)) /\ rec.ask = Num(D(8))

-----------------------------------------------------------------------------
(* C24 *)

\* the snapshot requests the adapter instance of the scan has issued for the
\* option opt while working on the symbol sym
SnapshotRequests(sym, opt) ==
    {i \in 1..Len(requests) :
        requests[i] = Req("snapshot", sym, opt)}

\* C24: within one PolygonProvider instance the snapshot endpoint is
\* requested at most once per option identifier during a scan
C24_SnapshotAtMostOncePerOption ==
    \A i \in 1..Len(requests) :
        requests[i].ep = "snapshot" =>
            Cardinality(SnapshotRequests(requests[i].sym, requests[i].arg)) <= 1

-----------------------------------------------------------------------------
(* C25 *)

\* what upstream answered during the get_put_quotes call for sym
FeedOf(sym) == calls[CHOOSE k \in 1..Len(calls) : calls[k].sym = sym].feed

\* the request r did not succeed: the request raised or the status was not 200
RequestFailed(r) ==
    LET f == FeedOf(r.sym)
    IN  CASE r.ep = "expirations" -> ~f.exps.ok
          [] r.ep = "chains" ->
                \E i \in 1..Len(f.exps.body) :
                    f.exps.body[i] = Num(r.arg) /\ ~f.chains[i].ok
          [] r.ep = "contracts" -> f.failPage = r.arg
          [] r.ep = "nbbo" -> UpstreamQuote(r.arg).nbbo.kind # "ok"
          [] r.ep = "snapshot" -> UpstreamQuote(r.arg).snap.kind # "ok"
          [] r.ep = "trade" -> UpstreamQuote(r.arg).trade.kind # "ok"
          [] r.ep = "prev" -> UpstreamQuote(r.arg).prev.kind # "ok"

\* how often r has been issued
TimesIssued(r) == Cardinality({j \in 1..Len(requests) : requests[j] = r})

\* how often upstream names the subject of r in its answers for r.sym: the
\* expiration date of a chain request in the expirations list, the option of
\* a quote request in the contract listing
TimesListed(r) ==
    LET f == FeedOf(r.sym)
    IN  CASE r.ep \in {"expirations", "contracts"} -> 1
          [] r.ep = "chains" ->
                Cardinality({i \in 1..Len(f.exps.body) :
                                f.exps.body[i] = Num(r.arg)})
          [] OTHER ->
                Cardinality({i \in 1..Len(f.listing) :
                                f.listing[i].ticker = r.arg})

\* C25 as stated: after a request fails, the same request (same endpoint,
\* same symbol, same expiration or option identifier) is not issued again
\* during the scan
C25_FailedRequestNeverReissued ==
    \A i \in 1..Len(requests) :
        RequestFailed(requests[i]) => TimesIssued(requests[i]) = 1

\* C25, amended: a request is issued at most once for each time upstream
\* names its subject (no request is repeated because it failed), and the
\* aggregator calls the adapter at most once per symbol
C25_NoRetry ==
    /\ \A i \in 1..Len(requests) :
          TimesIssued(requests[i]) <= TimesListed(requests[i])
    /\ \A k1, k2 \in 1..Len(calls) : calls[k1].sym = calls[k2].sym => k1 = k2

\* a finished scan of two symbols, the first of which raised, with a failed
\* request that was followed by other requests
C25_Witness ==
    /\ pc = "done"
    /\ Len(calls) = 2
    /\ calls[1].raised
    /\ \E i \in 1..(Len(requests) - 1) :
          RequestFailed(requests[i]) /\ TimesIssued(requests[i]) = 1

-----------------------------------------------------------------------------
(* C26 *)

InsideWindow(exp) ==
    exp.ok /\ min_dte <= exp.v - utc_today /\ exp.v - utc_today <= max_dte

\* the call returned a record for the option id
Returned(call, id) ==
    \E j \in 1..Len(call.quotes) : call.quotes[j].option_symbol = id

\* a put of a Tradier chain whose fields can all be read
TradierSound(c) ==
    /\ TradierIsPut(c)
    /\ c.strike.kind = "num" /\ c.strike.v > 0
    /\ ~TradierQuoteFieldsRaise(c)
    /\ ~TradierRecordFieldsRaise(c)

\* a listed Polygon put whose fields can be read and whose NBBO request
\* does not raise
PolygonSound(c) ==
    /\ c.contract_type = "put"
    /\ c.ticker # ""
    /\ InsideWindow(c.expiration_date)
    /\ c.strike_price.kind = "num" /\ c.strike_price.v > 0
    /\ c.q.nbbo.kind # "exc"

\* C26: when the quote of one contract cannot be obtained or parsed, only
\* that contract is skipped: every other contract of the symbol that the
\* listing requests delivered (a put inside the window with a positive
\* strike) is in the adapter's result
C26_OnlyFailingContractSkipped ==
    \A k \in 1..Len(calls) :
        LET call == calls[k]
            f == call.feed
        IN  IF provider = "Tradier"
            THEN f.exps.ok =>
                 \A i \in 1..Len(f.exps.body) :
                    (InsideWindow(f.exps.body[i]) /\ f.chains[i].ok) =>
                        \A j \in 1..Len(f.chains[i].body) :
                            TradierSound(f.chains[i].body[j]) =>
                                Returned(call, f.chains[i].body[j].symbol)
            ELSE f.failPage = 0 =>
                 \A j \in 1..Len(f.listing) :
                    PolygonSound(f.listing[j]) =>
                        Returned(call, f.listing[j].ticker)

-----------------------------------------------------------------------------
(* C27 *)

\* the rows of the table handed over whose expiration is past or cannot be
\* parsed as a date
BadExpiration ==
    {i \in 1..Len(df0.rows) :
        \/ ~df0.rows[i].expiration.ok
        \/ df0.rows[i].expiration.v - today < 0}

\* C27: filter_rows on a table holding a row whose expiration is past or
\* cannot be parsed does not raise; that row is not in the output, and the
\* other rows are in it exactly when they pass every test
C27_BadExpirationExcludedNotRaised ==
    \A k \in 1..Len(results) :
        BadExpiration # {} =>
            /\ ~results[k].raised
            /\ OutIndexes(results[k]) \cap BadExpiration = {}
            /\ OutIndexes(results[k]) =
                   {i \in 1..Len(df0.rows) \ BadExpiration :
                       SatisfiesAll(df0, df0.rows[i])}

-----------------------------------------------------------------------------
(* C28 *)

\* the contracts of the pages 1..n of the listing, in upstream order
RECURSIVE RowsUpTo(_)
RowsUpTo(n) == IF n = 0 THEN <<>> ELSE RowsUpTo(n - 1) \o it_pages[n].results

\* the page p carries a next_url; it carries some cursor token
HasNextUrl(p) == it_pages[p].next_url # 0
HasCursor(p) == it_pages[p].next_cursor # 0 \/ it_pages[p].cursor # 0

\* what has been yielded is what the pages answered so far hold, each
\* contract once and in upstream order; the requests went from page to page,
\* by next_url where the page had one and by the cursor otherwise; and the
\* iteration has stopped exactly when the last page answered carried neither
IterYieldsPagesInOrder ==
    LET asked == Len(it_reqs)
        answered == IF it_state = "raised" THEN asked - 1 ELSE asked
    IN  /\ it_yield = RowsUpTo(answered)
        /\ \A i \in 1..asked :
              /\ it_reqs[i].page = i
              /\ it_reqs[i].params =
                    IF i = 1 THEN "first"
                    ELSE IF HasNextUrl(i - 1) THEN "none" ELSE "cursor"
        /\ \A i \in 1..(answered - 1) : HasNextUrl(i) \/ HasCursor(i)
        /\ it_state = "stopped" <=>
              (answered >= 1 /\ answered = asked
                 /\ ~HasNextUrl(answered) /\ ~HasCursor(answered))

\* C28: _iter_contracts yields every contract of every result page once and
\* in upstream order, follows next_url when a page has one and otherwise the
\* cursor token, stops exactly when a page carries neither, and terminates
C28_IterContractsYieldsAllAndStops ==
    /\ []IterYieldsPagesInOrder
    /\ <>(it_state \in {"stopped", "raised"})

\* a listing of three pages, the first followed by its next_url although it
\* has a cursor too, the second by its cursor, read to the end
C28_Witness ==
    /\ it_state = "stopped"
    /\ Len(it_pages) = 3
    /\ HasNextUrl(1) /\ HasCursor(1)
    /\ ~HasNextUrl(2) /\ HasCursor(2)
    /\ Len(it_yield) = 2 * PageLimit + 1
    /\ it_yield = RowsUpTo(3)

-----------------------------------------------------------------------------
(* C29 *)

\* C29: every record the adapter returned for the window [min_dte, max_dte]
\* has, in the table compute_metrics derives from the scan at the same
\* instant, a dte inside [min_dte, max_dte]
C29_AdapterWindowAgreesWithFilter ==
    pre # Nothing =>
        /\ ~pre.raised
        /\ \A i \in 1..Len(pre.rows) :
              /\ pre.rows[i].dte.ok
              /\ min_dte <= pre.rows[i].dte.v
              /\ pre.rows[i].dte.v <= max_dte

-----------------------------------------------------------------------------
(* C30 *)

\* the fetched rows the checkboxes let through, in the calendar's order
ExpectedShown == SelectSeq(cal_df.rows, LAMBDA r :
    CASE r.session = "BMO" -> cal_bmo
      [] r.session = "AMC" -> cal_amc
      [] OTHER -> cal_bmo \/ cal_amc)

\* C30: on a fetched calendar that is not empty the session filter completes
\* without error and shows exactly the rows that pass the checkboxes, each
\* with its own data
C30_SessionFilterKeepsPassingRows ==
    (cal_df # Nothing /\ cal_df.rows # <<>>) =>
        /\ cal_shown # Nothing
        /\ ~cal_shown.raised
        /\ cal_shown.rows = ExpectedShown

=============================================================================
